---- MODULE Spec2Model ----
(***************************************************************************)
(* Three-phase school timetable engine of alexkolchak157/raspisanie:       *)
(*   Phase 1  ScheduleGenerator.place_ege_practices (schedule_generator.py)*)
(*   Phase 2  Phase2MandatoryPlacer (phase2_mandatory.py)                  *)
(*   Phase 3  Phase3Optimizer.optimize (phase3_optimization.py)            *)
(* run one after the other as main.py does, on a loader snapshot.          *)
(*                                                                         *)
(* Conventions of the model                                                *)
(*  - a TimeSlot is the record [day, lesson_number]; DayOfWeek is 1..5.    *)
(*  - a Teacher is its name, a Classroom its number ("None" = no room);    *)
(*    unavailable_days, home_classroom and capacity are looked up in the   *)
(*    loader record.                                                       *)
(*  - a lesson's student list is represented by its length.                *)
(*  - floating-point scores are kept as exact scaled integers: Phase 1     *)
(*    scores are multiplied by the number of teachers, Phase 3 metrics are *)
(*    in hundredths with the square root rounded down.                     *)
(*  - random.uniform / random.choice / random.random are choices: the slot *)
(*    jitter is a function of a seed drawn in Init, the lessons drawn and  *)
(*    the Metropolis draw are \E in the actions.                           *)
(***************************************************************************)
EXTENDS Integers, Sequences, FiniteSets, TLC

\* ------------------------------------------------------------------ grid
NumDays == 5
NumPeriods == 7

DayOfWeek == 1..NumDays
Periods == 1..NumPeriods

TimeSlot(d, n) == [day |-> d, lesson_number |-> n]

\* all_time_slots / all_slots: day-major list of the 35 slots
all_time_slots ==
    [i \in 1..(NumDays * NumPeriods) |->
        TimeSlot(((i - 1) \div NumPeriods) + 1, ((i - 1) % NumPeriods) + 1)]

AllSlots == {all_time_slots[i] : i \in DOMAIN all_time_slots}

SlotIndex(s) == (s.day - 1) * NumPeriods + s.lesson_number

NoClassroom == "None"

\* ------------------------------------------------------------ sequences
Range(seq) == {seq[i] : i \in DOMAIN seq}

RECURSIVE SumSeq(_)
SumSeq(seq) == IF seq = <<>> THEN 0 ELSE Head(seq) + SumSeq(Tail(seq))

RECURSIVE SumSet(_, _)
SumSet(S, f) ==
    IF S = {} THEN 0
    ELSE LET x == CHOOSE y \in S : TRUE IN f[x] + SumSet(S \ {x}, f)

\* ascending list of a set of integers
RECURSIVE SortedList(_)
SortedList(S) ==
    IF S = {} THEN <<>>
    ELSE LET m == CHOOSE x \in S : \A y \in S : x <= y
         IN <<m>> \o SortedList(S \ {m})

Max2(a, b) == IF a >= b THEN a ELSE b

\* largest r with r * r <= x  (math.sqrt, rounded down on the scaled value)
RECURSIVE ISqrtIn(_, _, _)
ISqrtIn(x, lo, hi) ==
    IF lo >= hi THEN lo
    ELSE LET mid == (lo + hi + 1) \div 2
         IN IF mid * mid <= x THEN ISqrtIn(x, mid, hi) ELSE ISqrtIn(x, lo, mid - 1)
ISqrt(x) == ISqrtIn(x, 0, 46340)

\* --------------------------------------------------------------- inputs
\* The loader snapshot handed to the three phases (main.py:126-161):
\*   unavailable_days : teacher name -> set of days      (Teacher)
\*   home_classroom   : teacher name -> classroom number (Teacher)
\*   classrooms       : list of [number, capacity] in dict order
\*   ege_groups       : list of [subject, teacher, student_count, hours_per_week]
\*   subjects         : list of [name, subject_type, hours_per_week, teacher, classes]
\*   seed             : seed of the random generator behind the slot jitter
Teachers == {"T1", "T2"}
Classes == {"A", "B"}

Teacher_is_available(ld, t, day) == day \notin ld.unavailable_days[t]

EGEPracticeGroup(subj, t, n, h) ==
    [subject |-> subj, teacher |-> t, student_count |-> n, hours_per_week |-> h]

Subject(nm, ty, h, t, cls) ==
    [name |-> nm, subject_type |-> ty, hours_per_week |-> h, teacher |-> t,
     classes |-> cls]

Classroom(nr, cap) == [number |-> nr, capacity |-> cap]

\* class_or_group of an exam-practice lesson (schedule_generator.py:169)
GroupLabel(subj) == "EGE-" \o subj

\* subject of an exam-practice lesson (schedule_generator.py:167)
GroupLessonSubject(subj) == "Praktikum EGE: " \o subj

Lesson(subj, t, label, room, slot, ege, n) ==
    [subject |-> subj, teacher |-> t, class_or_group |-> label,
     classroom |-> room, time_slot |-> slot, is_ege_practice |-> ege,
     students |-> n]

\* ------------------------------------------------- Phase 1: slot choice
\* random.uniform(-5, 5) of evaluate_ege_slot, as a function of the seed
Jitter(seed, slot) == ((seed * (SlotIndex(slot) + 3) * 7) % 11) - 5

\* evaluate_ege_slot, multiplied by len(loader.teachers)
evaluate_ege_slot(ld, slot) ==
    LET n == slot.lesson_number
        byNumber == IF n = 1 THEN -30
                    ELSE IF n = 7 THEN -20
                    ELSE IF 2 <= n /\ n <= 4 THEN 20 ELSE 0
        available_teachers ==
            Cardinality({t \in Teachers : Teacher_is_available(ld, t, slot.day)})
    IN Cardinality(Teachers) * (100 + byNumber + Jitter(ld.seed, slot))
       + available_teachers * 50

\* position at which a stable descending sort puts a new pair <<score, slot>>:
\* behind every pair already there whose score is at least as high
RECURSIVE InsertDescending(_, _)
InsertDescending(sorted, item) ==
    IF sorted = <<>> THEN <<item>>
    ELSE IF Head(sorted)[1] >= item[1]
         THEN <<Head(sorted)>> \o InsertDescending(Tail(sorted), item)
         ELSE <<item>> \o sorted

\* list.sort(key=score, reverse=True) and sorted(..., reverse=True): stable,
\* so pairs of equal score keep their order
RECURSIVE SortDescending(_, _, _)
SortDescending(items, i, acc) ==
    IF i > Len(items) THEN acc
    ELSE SortDescending(items, i + 1, InsertDescending(acc, items[i]))

\* slot_scores.items() of find_ege_practice_slots, in the order of all_time_slots
RECURSIVE slot_scores(_, _)
slot_scores(ld, i) ==
    IF i > Len(all_time_slots) THEN <<>>
    ELSE << <<evaluate_ege_slot(ld, all_time_slots[i]), all_time_slots[i]>> >>
         \o slot_scores(ld, i + 1)

\* sorted(slot_scores.items(), key=score, reverse=True), the slots only
RECURSIVE Seconds(_)
Seconds(pairs) ==
    IF pairs = <<>> THEN <<>> ELSE <<Head(pairs)[2]>> \o Seconds(Tail(pairs))

sorted_slots(ld) == Seconds(SortDescending(slot_scores(ld, 1), 1, <<>>))

DayCount(selected, day) ==
    Cardinality({i \in DOMAIN selected : selected[i].day = day})

\* the first loop with a cap of 3 slots of one day
RECURSIVE SelectSpread_ThreePerDay(_, _, _, _)
SelectSpread_ThreePerDay(sorted, i, selected, num_slots_needed) ==
    IF i > Len(sorted) \/ Len(selected) >= num_slots_needed THEN selected
    ELSE IF DayCount(selected, sorted[i].day) >= 3
         THEN SelectSpread_ThreePerDay(sorted, i + 1, selected, num_slots_needed)
         ELSE SelectSpread_ThreePerDay(sorted, i + 1, Append(selected, sorted[i]),
                                       num_slots_needed)

\* first loop of find_ege_practice_slots: at most 2 slots of one day
RECURSIVE SelectSpread(_, _, _, _)
SelectSpread(sorted, i, selected, num_slots_needed) ==
    IF i > Len(sorted) \/ Len(selected) >= num_slots_needed THEN selected
    ELSE IF DayCount(selected, sorted[i].day) >= 2
         THEN SelectSpread(sorted, i + 1, selected, num_slots_needed)
         ELSE SelectSpread(sorted, i + 1, Append(selected, sorted[i]),
                           num_slots_needed)

\* second loop: fill up from the slots not selected yet
RECURSIVE SelectRest(_, _, _, _)
SelectRest(sorted, i, selected, num_slots_needed) ==
    IF i > Len(sorted) THEN selected
    ELSE IF sorted[i] \in Range(selected)
         THEN SelectRest(sorted, i + 1, selected, num_slots_needed)
         ELSE LET sel == Append(selected, sorted[i])
              IN IF Len(sel) >= num_slots_needed THEN sel
                 ELSE SelectRest(sorted, i + 1, sel, num_slots_needed)

find_ege_practice_slots(ld, num_slots_needed) ==
    LET sorted == sorted_slots(ld)
        selected == SelectSpread(sorted, 1, <<>>, num_slots_needed)
    IN IF Len(selected) < num_slots_needed
       THEN SelectRest(sorted, 1, selected, num_slots_needed)
       ELSE selected

\* ---------------------------------------------------- Schedule queries
is_classroom_busy(ls, room, slot) ==
    \E i \in DOMAIN ls : ls[i].classroom = room /\ ls[i].time_slot = slot

is_teacher_busy(ls, t, slot) ==
    \E i \in DOMAIN ls : ls[i].teacher = t /\ ls[i].time_slot = slot

\* find_available_classroom without the capacity condition
find_available_classroom_AnyCapacity(ld, ls, slot, required_capacity) ==
    LET rooms == ld.classrooms
        ok == {i \in DOMAIN rooms : ~is_classroom_busy(ls, rooms[i].number, slot)}
    IN IF ok = {} THEN NoClassroom
       ELSE rooms[CHOOSE i \in ok :
                    \A j \in ok :
                       \/ rooms[i].capacity < rooms[j].capacity
                       \/ (rooms[i].capacity = rooms[j].capacity /\ i <= j)].number

\* find_available_classroom: free rooms that fit, the smallest first
\* (list.sort is stable: equal capacities keep dict order)
find_available_classroom(ld, ls, slot, required_capacity) ==
    LET rooms == ld.classrooms
        ok == {i \in DOMAIN rooms :
                  /\ rooms[i].capacity >= required_capacity
                  /\ ~is_classroom_busy(ls, rooms[i].number, slot)}
    IN IF ok = {} THEN NoClassroom
       ELSE rooms[CHOOSE i \in ok :
                    \A j \in ok :
                       \/ rooms[i].capacity < rooms[j].capacity
                       \/ (rooms[i].capacity = rooms[j].capacity /\ i <= j)].number

\* Schedule.get_lessons_by_teacher
get_lessons_by_teacher(ls, teacher_name) ==
    {i \in DOMAIN ls : ls[i].teacher = teacher_name}

\* Schedule.get_lessons_by_class: class_name in l.class_or_group. No class
\* name of the model ("A", "B") occurs inside another label of the model
\* ("unknown", "EGE-g1", "EGE-g2"), so the substring test is an equality here
get_lessons_by_class(ls, class_name) ==
    {i \in DOMAIN ls : ls[i].class_or_group = class_name}

\* the loop body of get_teacher_gaps and get_class_gaps for one day: the
\* periods from the first to the last lesson of the day that hold no lesson
GapsOfDay(ls, I, day) ==
    LET lesson_numbers ==
            {ls[i].time_slot.lesson_number :
                i \in {j \in I : ls[j].time_slot.day = day}}
        first == CHOOSE n \in lesson_numbers : \A k \in lesson_numbers : n <= k
        last == CHOOSE n \in lesson_numbers : \A k \in lesson_numbers : k <= n
    IN IF lesson_numbers = {} THEN 0
       ELSE Cardinality({i \in first..(last - 1) : i \notin lesson_numbers})

\* Schedule.get_teacher_gaps
get_teacher_gaps(ls, teacher_name) ==
    LET I == get_lessons_by_teacher(ls, teacher_name)
    IN GapsOfDay(ls, I, 1) + GapsOfDay(ls, I, 2) + GapsOfDay(ls, I, 3)
       + GapsOfDay(ls, I, 4) + GapsOfDay(ls, I, 5)

\* Schedule.get_class_gaps
get_class_gaps(ls, class_name) ==
    LET I == get_lessons_by_class(ls, class_name)
    IN GapsOfDay(ls, I, 1) + GapsOfDay(ls, I, 2) + GapsOfDay(ls, I, 3)
       + GapsOfDay(ls, I, 4) + GapsOfDay(ls, I, 5)

\* ------------------------------------------------ Phase 1: placement
\* the inner loop without the check of the teacher's day
RECURSIVE PlaceGroups_AnyDay(_, _, _, _, _)
PlaceGroups_AnyDay(ld, ls, slot_idx, time_slot, g) ==
    IF g > Len(ld.ege_groups) THEN ls
    ELSE LET group == ld.ege_groups[g]
         IN IF slot_idx - 1 >= group.hours_per_week
            THEN PlaceGroups_AnyDay(ld, ls, slot_idx, time_slot, g + 1)
            ELSE LET classroom == find_available_classroom(
                                      ld, ls, time_slot, group.student_count)
                     lesson == Lesson(GroupLessonSubject(group.subject),
                                      group.teacher, GroupLabel(group.subject),
                                      classroom, time_slot, TRUE,
                                      group.student_count)
                 IN PlaceGroups_AnyDay(ld, Append(ls, lesson), slot_idx,
                                       time_slot, g + 1)

\* inner loop of place_ege_practices over the groups, for one slot
RECURSIVE PlaceGroups(_, _, _, _, _)
PlaceGroups(ld, ls, slot_idx, time_slot, g) ==
    IF g > Len(ld.ege_groups) THEN ls
    ELSE LET group == ld.ege_groups[g]
         IN IF slot_idx - 1 >= group.hours_per_week
            THEN PlaceGroups(ld, ls, slot_idx, time_slot, g + 1)
            ELSE IF ~Teacher_is_available(ld, group.teacher, time_slot.day)
            THEN PlaceGroups(ld, ls, slot_idx, time_slot, g + 1)
            ELSE LET classroom == find_available_classroom(
                                      ld, ls, time_slot, group.student_count)
                     lesson == Lesson(GroupLessonSubject(group.subject),
                                      group.teacher, GroupLabel(group.subject),
                                      classroom, time_slot, TRUE,
                                      group.student_count)
                 IN PlaceGroups(ld, Append(ls, lesson), slot_idx, time_slot,
                                g + 1)

\* outer loop of place_ege_practices over the reserved slots
RECURSIVE PlaceSlots(_, _, _, _)
PlaceSlots(ld, ls, slots, slot_idx) ==
    IF slot_idx > Len(slots) THEN ls
    ELSE PlaceSlots(ld, PlaceGroups(ld, ls, slot_idx, slots[slot_idx], 1),
                    slots, slot_idx + 1)

\* the lines "teacher ... unavailable on ..." that the inner loop of
\* place_ege_practices prints for one slot, one line per skipped group
RECURSIVE UnavailableGroups(_, _, _, _, _)
UnavailableGroups(ld, out, slot_idx, time_slot, g) ==
    IF g > Len(ld.ege_groups) THEN out
    ELSE LET group == ld.ege_groups[g]
         IN IF slot_idx - 1 >= group.hours_per_week
            THEN UnavailableGroups(ld, out, slot_idx, time_slot, g + 1)
            ELSE IF ~Teacher_is_available(ld, group.teacher, time_slot.day)
            THEN UnavailableGroups(
                     ld, Append(out, [subject |-> group.subject,
                                      teacher |-> group.teacher,
                                      day |-> time_slot.day]),
                     slot_idx, time_slot, g + 1)
            ELSE UnavailableGroups(ld, out, slot_idx, time_slot, g + 1)

\* the same lines over all the reserved slots, in the order printed
RECURSIVE UnavailableWarnings(_, _, _, _)
UnavailableWarnings(ld, out, slots, slot_idx) ==
    IF slot_idx > Len(slots) THEN out
    ELSE UnavailableWarnings(
             ld, UnavailableGroups(ld, out, slot_idx, slots[slot_idx], 1),
             slots, slot_idx + 1)

max_hours(ld) ==
    LET hs == {ld.ege_groups[g].hours_per_week : g \in DOMAIN ld.ege_groups}
    IN CHOOSE h \in hs : \A k \in hs : k <= h

\* ------------------------------------------------- Phase 2: ordering
\* Subject names of the model, in the order of Python's string comparison.
\* "algebra" and "nemeckij" stand for names holding a keyword of
\* _is_hard_subject ('алгебра', 'немецкий'); 'немецкий' is no keyword of
\* Phase 3's own list (phase3_optimization.py:223-224, 311-312).
SubjectNames == <<"algebra", "istoriya", "nemeckij">>

NameRank(nm) == CHOOSE i \in DOMAIN SubjectNames : SubjectNames[i] = nm

_is_hard_subject(subject) == subject.name \in {"algebra", "nemeckij"}

\* hard_keywords of _count_suboptimal_timing and _find_problem_lessons
IsHardLesson(lesson) == lesson.subject \in {"algebra"}

\* priority_score of _sort_by_priority
priority_score(ld, subject) ==
    << -(IF _is_hard_subject(subject) THEN 1 ELSE 0),
       -subject.hours_per_week,
       -Cardinality(ld.unavailable_days[subject.teacher]),
       NameRank(subject.name) >>

\* tuple comparison a < b
TupleLess(a, b) ==
    \E k \in DOMAIN a : a[k] < b[k] /\ \A j \in 1..(k - 1) : a[j] = b[j]

\* mandatory_subjects of place_all_mandatory_subjects: positions in ld.subjects
mandatory_subjects(ld) ==
    {i \in DOMAIN ld.subjects : ld.subjects[i].subject_type = "mandatory"}

\* _sort_by_priority: positions of the mandatory subjects, sorted (stable)
_sort_by_priority(ld) ==
    LET M == mandatory_subjects(ld)
        key(i) == priority_score(ld, ld.subjects[i])
        before(i, j) == TupleLess(key(i), key(j)) \/ (key(i) = key(j) /\ i < j)
        rank(i) == Cardinality({j \in M : before(j, i)})
    IN [r \in 1..Cardinality(M) |-> CHOOSE i \in M : rank(i) = r - 1]

\* class names in the order by_class first sees them
RECURSIVE ClassOrder(_, _, _, _)
ClassOrder(ld, sorted, i, acc) ==
    IF i > Len(sorted) THEN acc
    ELSE LET cls == ld.subjects[sorted[i]].classes
             new == SelectSeq(cls, LAMBDA c : c \notin Range(acc))
         IN ClassOrder(ld, sorted, i + 1, acc \o new)

\* _group_by_class followed by the two loops of place_all_mandatory_subjects:
\* the subjects in the order _place_subject is called on them
RECURSIVE PlacementOrderFrom(_, _, _, _)
PlacementOrderFrom(ld, sorted, order, c) ==
    IF c > Len(order) THEN <<>>
    ELSE SelectSeq(sorted, LAMBDA i : order[c] \in Range(ld.subjects[i].classes))
         \o PlacementOrderFrom(ld, sorted, order, c + 1)

PlacementOrder(ld) ==
    LET sorted == _sort_by_priority(ld)
    IN PlacementOrderFrom(ld, sorted, ClassOrder(ld, sorted, 1, <<>>), 1)

\* ------------------------------------------- Phase 2: occupancy index
\* every key the three defaultdicts can hold
AllLabels(ld) ==
    Classes \cup {"unknown"}
    \cup {GroupLabel(ld.ege_groups[g].subject) : g \in DOMAIN ld.ege_groups}

RoomNumbers(ld) == {ld.classrooms[i].number : i \in DOMAIN ld.classrooms}

\* _build_cache: the keys of each dict of dicts (the values are never read)
_build_cache(ld, ls) ==
    [teacher |-> [t \in Teachers |->
                   {ls[i].time_slot : i \in {j \in DOMAIN ls : ls[j].teacher = t}}],
     class |-> [c \in AllLabels(ld) |->
                   {ls[i].time_slot :
                       i \in {j \in DOMAIN ls : ls[j].class_or_group = c}}],
     classroom |-> [r \in RoomNumbers(ld) |->
                   {ls[i].time_slot :
                       i \in {j \in DOMAIN ls : ls[j].classroom = r}}]]

\* _update_cache without its entry for the classroom (lines 75-76 left out)
_update_cache_NoClassroom(cache, lesson) ==
    [teacher |-> [cache.teacher EXCEPT
                     ![lesson.teacher] = @ \cup {lesson.time_slot}],
     class |-> [cache.class EXCEPT
                     ![lesson.class_or_group] = @ \cup {lesson.time_slot}],
     classroom |-> cache.classroom]

\* _update_cache
_update_cache(cache, lesson) ==
    [teacher |-> [cache.teacher EXCEPT
                     ![lesson.teacher] = @ \cup {lesson.time_slot}],
     class |-> [cache.class EXCEPT
                     ![lesson.class_or_group] = @ \cup {lesson.time_slot}],
     classroom |-> IF lesson.classroom # NoClassroom
                   THEN [cache.classroom EXCEPT
                            ![lesson.classroom] = @ \cup {lesson.time_slot}]
                   ELSE cache.classroom]

\* ------------------------------------------------ Phase 2: slot choice
\* _is_slot_available without its loop over subject.classes
_is_slot_available_NoClassCheck(ld, cache, reserved, slot, subject) ==
    /\ Teacher_is_available(ld, subject.teacher, slot.day)
    /\ slot \notin cache.teacher[subject.teacher]
    /\ slot \notin reserved

\* _is_slot_available without the check of the teacher's day
_is_slot_available_AnyDay(ld, cache, reserved, slot, subject) ==
    /\ slot \notin cache.teacher[subject.teacher]
    /\ \A k \in DOMAIN subject.classes : slot \notin cache.class[subject.classes[k]]
    /\ slot \notin reserved

_is_slot_available(ld, cache, reserved, slot, subject) ==
    /\ Teacher_is_available(ld, subject.teacher, slot.day)
    /\ slot \notin cache.teacher[subject.teacher]
    /\ \A k \in DOMAIN subject.classes : slot \notin cache.class[subject.classes[k]]
    /\ slot \notin reserved

\* sum of the differences of neighbours, less one each (lines 289-292)
RECURSIVE PairGaps(_)
PairGaps(nums) ==
    IF Len(nums) < 2 THEN 0
    ELSE (nums[2] - nums[1] - 1) + PairGaps(Tail(nums))

\* _evaluate_slot with a day-load penalty of 30 per lesson instead of 3
_evaluate_slot_HeavyDayLoad(ld, cache, reserved, slot, subject, is_hard) ==
    IF ~_is_slot_available(ld, cache, reserved, slot, subject) THEN 0
    ELSE
      LET n == slot.lesson_number
          timing == IF is_hard
                    THEN (IF 2 <= n /\ n <= 4 THEN 30
                          ELSE IF n = 1 THEN -15
                          ELSE IF n >= 6 THEN -25 ELSE 0)
                    ELSE (IF n >= 5 THEN 10 ELSE IF n = 1 THEN -5 ELSE 0)
          edges == (IF n = 1 THEN -10 ELSE 0) + (IF n = 7 THEN -20 ELSE 0)
          day_load == IF subject.classes = <<>> THEN 0
                      ELSE Cardinality({ts \in cache.class[subject.classes[1]] :
                                           ts.day = slot.day})
          teacher_slots == {ts \in cache.teacher[subject.teacher] :
                               ts.day = slot.day}
          gaps == IF teacher_slots = {} THEN 0
                  ELSE PairGaps(SortedList(
                           {ts.lesson_number : ts \in teacher_slots} \cup {n}))
          teacher_days == {ts.day : ts \in cache.teacher[subject.teacher]}
          new_day == IF slot.day \notin teacher_days THEN 5 ELSE 0
          score == 100 + timing + edges - day_load * 30 - gaps * 5 + new_day
      IN IF slot \in reserved THEN 0 ELSE score

_evaluate_slot(ld, cache, reserved, slot, subject, is_hard) ==
    IF ~_is_slot_available(ld, cache, reserved, slot, subject) THEN 0
    ELSE
      LET n == slot.lesson_number
          timing == IF is_hard
                    THEN (IF 2 <= n /\ n <= 4 THEN 30
                          ELSE IF n = 1 THEN -15
                          ELSE IF n >= 6 THEN -25 ELSE 0)
                    ELSE (IF n >= 5 THEN 10 ELSE IF n = 1 THEN -5 ELSE 0)
          edges == (IF n = 1 THEN -10 ELSE 0) + (IF n = 7 THEN -20 ELSE 0)
          day_load == IF subject.classes = <<>> THEN 0
                      ELSE Cardinality({ts \in cache.class[subject.classes[1]] :
                                           ts.day = slot.day})
          teacher_slots == {ts \in cache.teacher[subject.teacher] :
                               ts.day = slot.day}
          gaps == IF teacher_slots = {} THEN 0
                  ELSE PairGaps(SortedList(
                           {ts.lesson_number : ts \in teacher_slots} \cup {n}))
          teacher_days == {ts.day : ts \in cache.teacher[subject.teacher]}
          new_day == IF slot.day \notin teacher_days THEN 5 ELSE 0
          score == 100 + timing + edges - day_load * 3 - gaps * 5 + new_day
      IN IF slot \in reserved THEN 0 ELSE score

\* first loop of _evaluate_all_slots: (score, slot) of the slots of score > 0
RECURSIVE ScoredFrom(_, _, _, _, _, _)
ScoredFrom(ld, cch, reserved, subject, is_hard, i) ==
    IF i > Len(all_time_slots) THEN <<>>
    ELSE LET score == _evaluate_slot(ld, cch, reserved, all_time_slots[i],
                                     subject, is_hard)
         IN (IF score > 0 THEN << <<score, all_time_slots[i]>> >> ELSE <<>>)
            \o ScoredFrom(ld, cch, reserved, subject, is_hard, i + 1)

\* _evaluate_all_slots: the slots of positive score, best first (stable sort)
_evaluate_all_slots(ld, cch, reserved, subject, is_hard) ==
    SortDescending(ScoredFrom(ld, cch, reserved, subject, is_hard, 1), 1, <<>>)

NoSlot == TimeSlot(0, 0)

\* _find_best_slot without its first loop: the days used do not count
_find_best_slot_AnyDay(ld, cache, reserved, scored, subject, days) ==
    LET legal == {i \in DOMAIN scored :
                     _is_slot_available(ld, cache, reserved, scored[i][2], subject)}
        first(S) == CHOOSE i \in S : \A j \in S : i <= j
    IN IF legal # {} THEN scored[first(legal)][2]
       ELSE NoSlot

\* _find_best_slot: first legal slot on an unused day, else first legal slot
_find_best_slot(ld, cache, reserved, scored, subject, days) ==
    LET legal == {i \in DOMAIN scored :
                     _is_slot_available(ld, cache, reserved, scored[i][2], subject)}
        fresh == {i \in legal : scored[i][2].day \notin days}
        first(S) == CHOOSE i \in S : \A j \in S : i <= j
    IN IF fresh # {} THEN scored[first(fresh)][2]
       ELSE IF legal # {} THEN scored[first(legal)][2]
       ELSE NoSlot

\* _find_classroom without the preference for the home classroom
_find_classroom_FirstFree(ld, cache, subject, slot) ==
    LET free == {i \in DOMAIN ld.classrooms :
                    slot \notin cache.classroom[ld.classrooms[i].number]}
    IN IF free # {}
       THEN ld.classrooms[CHOOSE i \in free : \A j \in free : i <= j].number
       ELSE NoClassroom

\* _find_classroom: the teacher's home room when free, else the first free room
_find_classroom(ld, cache, subject, slot) ==
    LET home == ld.home_classroom[subject.teacher]
        free == {i \in DOMAIN ld.classrooms :
                    slot \notin cache.classroom[ld.classrooms[i].number]}
    IN IF /\ home # NoClassroom
          /\ home \in RoomNumbers(ld)
          /\ slot \notin cache.classroom[home]
       THEN home
       ELSE IF free # {}
       THEN ld.classrooms[CHOOSE i \in free : \A j \in free : i <= j].number
       ELSE NoClassroom

\* ------------------------------------------------ Phase 3: the metric
\* lesson_numbers of the lessons I of ls, sorted (duplicates kept)
RECURSIVE SortedNumbers(_, _)
SortedNumbers(ls, I) ==
    IF I = {} THEN <<>>
    ELSE LET m == CHOOSE i \in I :
                     \A j \in I : ls[i].time_slot.lesson_number
                                  <= ls[j].time_slot.lesson_number
         IN <<ls[m].time_slot.lesson_number>> \o SortedNumbers(ls, I \ {m})

OnDay(ls, I, day) == {i \in I : ls[i].time_slot.day = day}

\* gaps of one actor (the lessons I) over the week, as lines 188-196 count them
ActorGaps(ls, I) ==
    LET perDay == [day \in DayOfWeek |->
                     IF Cardinality(OnDay(ls, I, day)) < 2 THEN 0
                     ELSE PairGaps(SortedNumbers(ls, OnDay(ls, I, day)))]
    IN SumSet(DayOfWeek, perDay)

lessons_by_teacher(ls, t) == {i \in DOMAIN ls : ls[i].teacher = t}
lessons_by_class(ls, c) == {i \in DOMAIN ls : ls[i].class_or_group = c}

TeachersOf(ls) == {ls[i].teacher : i \in DOMAIN ls}
LabelsOf(ls) == {ls[i].class_or_group : i \in DOMAIN ls}

\* class_name.startswith('ЕГЭ-')
IsGroupLabel(label) == label \in {GroupLabel("g1"), GroupLabel("g2")}

_count_teacher_gaps(ls) ==
    SumSet(TeachersOf(ls),
           [t \in TeachersOf(ls) |-> ActorGaps(ls, lessons_by_teacher(ls, t))])

_count_class_gaps(ls) ==
    LET cs == {c \in LabelsOf(ls) : ~IsGroupLabel(c)}
    IN SumSet(cs, [c \in cs |-> ActorGaps(ls, lessons_by_class(ls, c))])

_count_suboptimal_timing(ls) ==
    Cardinality({i \in DOMAIN ls :
                    /\ ~ls[i].is_ege_practice
                    /\ IsHardLesson(ls[i])
                    /\ ls[i].time_slot.lesson_number \notin {2, 3, 4}})

\* daily_counts of _calculate_daily_variance
daily_counts(ls) ==
    [day \in DayOfWeek |-> Cardinality(OnDay(ls, DOMAIN ls, day))]

\* 125 * variance = sum over the days of (5 * count - total)^2
DailyVariance125(ls) ==
    LET dc == daily_counts(ls)
        total == SumSet(DayOfWeek, dc)
    IN SumSet(DayOfWeek,
              [day \in DayOfWeek |->
                 (NumDays * dc[day] - total) * (NumDays * dc[day] - total)])

\* 100 * 3 * sqrt(variance), rounded down: 300 * sqrt(V / 125) = sqrt(720 * V)
DeviationTerm(ls) == ISqrt(720 * DailyVariance125(ls))

_calculate_schedule_spread(ls) ==
    LET cs == {c \in LabelsOf(ls) : ~IsGroupLabel(c)}
        spreadOf(I) ==
            LET nums == {ls[i].time_slot.lesson_number : i \in I}
                hi == CHOOSE x \in nums : \A y \in nums : y <= x
                lo == CHOOSE x \in nums : \A y \in nums : x <= y
            IN hi - lo + 1 - Cardinality(I)
        perClass == [c \in cs |->
            SumSet(DayOfWeek,
                   [day \in DayOfWeek |->
                      LET I == OnDay(ls, lessons_by_class(ls, c), day)
                      IN IF Cardinality(I) < 2 THEN 0 ELSE spreadOf(I)])]
    IN SumSet(cs, perClass)

\* _calculate_quality_metric, in hundredths
_calculate_quality_metric(ls) ==
    100 * (_count_teacher_gaps(ls) * 4 + _count_class_gaps(ls) * 4
           + _count_suboptimal_timing(ls) * 4
           + _calculate_schedule_spread(ls) * 2)
    + DeviationTerm(ls)

\* ------------------------------------------------- Phase 3: the swaps
\* _build_indices: lessons_by_slot, each list in the order of schedule.lessons
_build_indices(ls) ==
    [s \in AllSlots |->
        SelectSeq([i \in DOMAIN ls |-> i], LAMBDA i : ls[i].time_slot = s)]

_find_problem_lessons(ls) ==
    {i \in DOMAIN ls :
        /\ ~ls[i].is_ege_practice
        /\ \/ (IsHardLesson(ls[i])
               /\ ls[i].time_slot.lesson_number \notin {2, 3, 4})
           \/ LET day == OnDay(ls, lessons_by_teacher(ls, ls[i].teacher),
                               ls[i].time_slot.day)
                  nums == SortedNumbers(ls, day)
                  idx == CHOOSE k \in DOMAIN nums :
                            /\ nums[k] = ls[i].time_slot.lesson_number
                            /\ \A j \in 1..(k - 1) :
                                  nums[j] # ls[i].time_slot.lesson_number
              IN /\ Cardinality(day) >= 2
                 /\ \/ (idx > 1 /\ nums[idx] - nums[idx - 1] > 1)
                    \/ (idx < Len(nums) /\ nums[idx + 1] - nums[idx] > 1)}

\* _can_swap with the checks of lesson1 on slot2 only (lines 375-381, 388-390
\* and 398-400 left out)
_can_swap_OneWay(ld, ls, by_slot, l1, l2) ==
    LET slot1 == ls[l1].time_slot
        slot2 == ls[l2].time_slot
        at2 == {o \in Range(by_slot[slot2]) : ls[o] # ls[l2]}
    IN /\ slot1 # slot2
       /\ Teacher_is_available(ld, ls[l1].teacher, slot2.day)
       /\ \A o \in at2 : ls[o].teacher # ls[l1].teacher
       /\ \A o \in at2 : ls[o].class_or_group # ls[l1].class_or_group
       /\ (ls[l1].classroom # NoClassroom /\ ls[l2].classroom # NoClassroom)
            => \A o \in at2 : ls[o].classroom # ls[l1].classroom

\* _can_swap without its checks of the classes (lines 383-390 left out)
_can_swap_NoClassCheck(ld, ls, by_slot, l1, l2) ==
    LET slot1 == ls[l1].time_slot
        slot2 == ls[l2].time_slot
        at2 == {o \in Range(by_slot[slot2]) : ls[o] # ls[l2]}
        at1 == {o \in Range(by_slot[slot1]) : ls[o] # ls[l1]}
    IN /\ slot1 # slot2
       /\ Teacher_is_available(ld, ls[l1].teacher, slot2.day)
       /\ \A o \in at2 : ls[o].teacher # ls[l1].teacher
       /\ Teacher_is_available(ld, ls[l2].teacher, slot1.day)
       /\ \A o \in at1 : ls[o].teacher # ls[l2].teacher
       /\ (ls[l1].classroom # NoClassroom /\ ls[l2].classroom # NoClassroom)
            => /\ \A o \in at2 : ls[o].classroom # ls[l1].classroom
               /\ \A o \in at1 : ls[o].classroom # ls[l2].classroom

\* _can_swap without the availability check of lesson2's teacher (line 376)
_can_swap_OneAvailabilityCheck(ld, ls, by_slot, l1, l2) ==
    LET slot1 == ls[l1].time_slot
        slot2 == ls[l2].time_slot
        at2 == {o \in Range(by_slot[slot2]) : ls[o] # ls[l2]}
        at1 == {o \in Range(by_slot[slot1]) : ls[o] # ls[l1]}
    IN /\ slot1 # slot2
       /\ Teacher_is_available(ld, ls[l1].teacher, slot2.day)
       /\ \A o \in at2 : ls[o].teacher # ls[l1].teacher
       /\ \A o \in at1 : ls[o].teacher # ls[l2].teacher
       /\ \A o \in at2 : ls[o].class_or_group # ls[l1].class_or_group
       /\ \A o \in at1 : ls[o].class_or_group # ls[l2].class_or_group
       /\ (ls[l1].classroom # NoClassroom /\ ls[l2].classroom # NoClassroom)
            => /\ \A o \in at2 : ls[o].classroom # ls[l1].classroom
               /\ \A o \in at1 : ls[o].classroom # ls[l2].classroom

\* _can_swap; lessons are compared by value, as the dataclass __eq__ does
_can_swap(ld, ls, by_slot, l1, l2) ==
    LET slot1 == ls[l1].time_slot
        slot2 == ls[l2].time_slot
        at2 == {o \in Range(by_slot[slot2]) : ls[o] # ls[l2]}
        at1 == {o \in Range(by_slot[slot1]) : ls[o] # ls[l1]}
    IN /\ slot1 # slot2
       /\ Teacher_is_available(ld, ls[l1].teacher, slot2.day)
       /\ \A o \in at2 : ls[o].teacher # ls[l1].teacher
       /\ Teacher_is_available(ld, ls[l2].teacher, slot1.day)
       /\ \A o \in at1 : ls[o].teacher # ls[l2].teacher
       /\ \A o \in at2 : ls[o].class_or_group # ls[l1].class_or_group
       /\ \A o \in at1 : ls[o].class_or_group # ls[l2].class_or_group
       /\ (ls[l1].classroom # NoClassroom /\ ls[l2].classroom # NoClassroom)
            => /\ \A o \in at2 : ls[o].classroom # ls[l1].classroom
               /\ \A o \in at1 : ls[o].classroom # ls[l2].classroom

\* _find_swap_candidates without the skip of two exam practices (lines
\* 348-350 left out)
_find_swap_candidates_AnyPair(ld, ls, by_slot, lesson) ==
    {o \in DOMAIN ls :
        /\ ls[o] # ls[lesson]
        /\ _can_swap(ld, ls, by_slot, lesson, o)}

\* _find_swap_candidates; lessons are compared by value
_find_swap_candidates(ld, ls, by_slot, lesson) ==
    {o \in DOMAIN ls :
        /\ ls[o] # ls[lesson]
        /\ ~(ls[lesson].is_ege_practice /\ ls[o].is_ege_practice)
        /\ _can_swap(ld, ls, by_slot, lesson, o)}

\* list.remove(x) guarded by "x in list": drops the first entry equal to x
RemoveFirst(ls, list, l) ==
    LET hits == {k \in DOMAIN list : ls[list[k]] = ls[l]}
    IN IF hits = {} THEN list
       ELSE LET k == CHOOSE h \in hits : \A j \in hits : h <= j
            IN SubSeq(list, 1, k - 1) \o SubSeq(list, k + 1, Len(list))

\* _swap_lessons that moves lesson1 only (line 417 left out)
_swap_lessons_OneMoves(ls, by_slot, l1, l2) ==
    LET slot1 == ls[l1].time_slot
        slot2 == ls[l2].time_slot
        b1 == [by_slot EXCEPT ![slot1] = RemoveFirst(ls, @, l1)]
        ls2 == [ls EXCEPT ![l1].time_slot = slot2]
        b3 == [b1 EXCEPT ![slot2] = Append(@, l1)]
    IN [lessons |-> ls2, lessons_by_slot |-> b3]

\* _swap_lessons that moves the classrooms along with the slots
_swap_lessons_WithClassrooms(ls, by_slot, l1, l2) ==
    LET slot1 == ls[l1].time_slot
        slot2 == ls[l2].time_slot
        b1 == [by_slot EXCEPT ![slot1] = RemoveFirst(ls, @, l1)]
        b2 == [b1 EXCEPT ![slot2] = RemoveFirst(ls, @, l2)]
        ls2 == [ls EXCEPT ![l1].time_slot = slot2, ![l2].time_slot = slot1,
                          ![l1].classroom = ls[l2].classroom,
                          ![l2].classroom = ls[l1].classroom]
        b3 == [b2 EXCEPT ![slot2] = Append(@, l1)]
        b4 == [b3 EXCEPT ![slot1] = Append(@, l2)]
    IN [lessons |-> ls2, lessons_by_slot |-> b4]

\* _swap_lessons: the new schedule.lessons and lessons_by_slot
_swap_lessons(ls, by_slot, l1, l2) ==
    LET slot1 == ls[l1].time_slot
        slot2 == ls[l2].time_slot
        b1 == [by_slot EXCEPT ![slot1] = RemoveFirst(ls, @, l1)]
        b2 == [b1 EXCEPT ![slot2] = RemoveFirst(ls, @, l2)]
        ls2 == [ls EXCEPT ![l1].time_slot = slot2, ![l2].time_slot = slot1]
        b3 == [b2 EXCEPT ![slot2] = Append(@, l1)]
        b4 == [b3 EXCEPT ![slot1] = Append(@, l2)]
    IN [lessons |-> ls2, lessons_by_slot |-> b4]

\* _copy_schedule: a new Lesson and a new TimeSlot for every lesson
_copy_schedule(ls) ==
    [i \in DOMAIN ls |->
        Lesson(ls[i].subject, ls[i].teacher, ls[i].class_or_group,
               ls[i].classroom,
               TimeSlot(ls[i].time_slot.day, ls[i].time_slot.lesson_number),
               ls[i].is_ege_practice, ls[i].students)]

\* parameters of the annealing (temperatures in thousandths)
initial_temperature == 100000
cooling_rate == 995
min_temperature == 100
max_no_improvement == 200
Infinity == 1000000000

\* max(min_temperature, temperature * cooling_rate)
Cool(temperature) ==
    Max2(min_temperature, (temperature * cooling_rate) \div 1000)

\* _acceptance_probability(delta, temperature) compared with random.random()
\* in [0, 1): exp(-0 / T) = 1 always accepts; exp(-x) is 0.0 in double
\* precision once x > 745 and then never accepts; in between either happens.
\* delta is in hundredths, temperature in thousandths.
MayAccept(delta, temperature) ==
    temperature > 0 /\ 10 * delta <= 745 * temperature
MayReject(delta, temperature) == delta > 0

\* ------------------------------------------------------- input domains
MaxLessons == 4
MaxIterations == 2
MaxSeed == 1

\* unavailable_days of the two teachers
UnavailableChoices ==
    {[T1 |-> u1, T2 |-> u2] : u1 \in {{}, {1}, {2, 3, 4, 5}, DayOfWeek},
                              u2 \in {{}, {2, 3, 4, 5}}}

\* loader.classrooms, and the home classroom of T1 (T2 has none)
ClassroomChoices ==
    {<<Classroom("R1", 20)>>, <<Classroom("R1", 30), Classroom("R2", 20)>>}
HomeChoices == {NoClassroom, "R2"}

\* loader.ege_groups: the groups have pairwise distinct subjects, as
\* create_ege_practice_groups builds one group per exam subject
GroupChoices ==
    {<<>>,
     <<EGEPracticeGroup("g1", "T1", 15, 2)>>,
     <<EGEPracticeGroup("g1", "T2", 15, 1), EGEPracticeGroup("g2", "T1", 25, 1)>>,
     <<EGEPracticeGroup("g1", "T1", 25, 1), EGEPracticeGroup("g2", "T1", 15, 2)>>}

\* loader.subjects
SubjectChoices ==
    {<<>>,
     <<Subject("algebra", "mandatory", 2, "T1", <<"A">>)>>,
     <<Subject("istoriya", "mandatory", 3, "T1", <<"A">>)>>,
     <<Subject("nemeckij", "mandatory", 1, "T1", <<"A">>),
       Subject("algebra", "mandatory", 1, "T2", <<"A">>)>>,
     <<Subject("istoriya", "mandatory", 2, "T1", <<"A">>),
       Subject("istoriya", "mandatory", 2, "T2", <<"B">>)>>,
     <<Subject("nemeckij", "mandatory", 1, "T2", <<"A", "B">>)>>,
     <<Subject("istoriya", "mandatory", 1, "T2", <<>>),
       Subject("algebra", "ege_practice", 1, "T1", <<"A">>),
       Subject("algebra", "mandatory", 1, "T1", <<"B">>)>>}

RECURSIVE GroupHours(_)
GroupHours(gs) ==
    IF gs = <<>> THEN 0 ELSE Head(gs).hours_per_week + GroupHours(Tail(gs))

\* hours Phase 2 is asked to place: _place_subject runs once per listed class
RECURSIVE SubjectHours(_)
SubjectHours(ss) ==
    IF ss = <<>> THEN 0
    ELSE (IF Head(ss).subject_type = "mandatory"
          THEN Head(ss).hours_per_week * Len(Head(ss).classes) ELSE 0)
         + SubjectHours(Tail(ss))

Inputs ==
    {ld \in [unavailable_days : UnavailableChoices,
             home_classroom : {[T1 |-> h, T2 |-> NoClassroom] : h \in HomeChoices},
             classrooms : ClassroomChoices,
             ege_groups : GroupChoices,
             subjects : SubjectChoices,
             seed : 0..MaxSeed] :
        /\ GroupHours(ld.ege_groups) + SubjectHours(ld.subjects) <= MaxLessons
        /\ ld.ege_groups = <<>> => ld.seed = 0
        /\ ld.subjects = <<>> => ld.home_classroom["T1"] = NoClassroom}

\* the max_iterations optimize is called with: a few iterations for every
\* input, and for the inputs with one requirement, one classroom and no exam
\* groups also a budget longer than the plateau limit max_no_improvement
IterationChoices(ld) ==
    (0..MaxIterations) \cup
    (IF ld.ege_groups = <<>> /\ Len(ld.subjects) = 1 /\ Len(ld.classrooms) = 1
     THEN {max_no_improvement + MaxIterations} ELSE {})

\* ---------------------------------------------------------------- state
VARIABLES
    loader,              \* the loader snapshot (never changes)
    max_iterations,      \* argument of optimize
    pc,                  \* where main.py / the running phase stands
    lessons,             \* schedule.lessons of the working schedule
    ege_slots,           \* ScheduleGenerator.ege_slots
    p1_warnings,         \* Phase 1: the "teacher unavailable" lines printed
    cache,               \* Phase 2: _teacher/_class/_classroom_schedule
    p2_stats,            \* Phase 2: stats
    queue,               \* Phase 2: subjects still to be given to _place_subject
    subject_idx,         \* Phase 2: position in queue
    hour,                \* _place_subject: hours handled so far
    scored_slots,        \* _place_subject: scored_slots
    days_used,           \* _place_subject: days_used
    placed,              \* _place_subject: placed
    lessons_by_slot,     \* Phase 3: lessons_by_slot
    best_schedule,       \* Phase 3: best_schedule
    best_metric,         \* Phase 3: best_metric
    current_metric,      \* optimize: current_metric
    p3_stats,            \* Phase 3: stats
    temperature,         \* optimize: temperature
    no_improvement_count,\* optimize: no_improvement_count
    iteration,           \* optimize: iterations of the for loop started
    swap_result,         \* optimize: (lesson1, lesson2, new_metric) or <<>>
    exit                 \* optimize: how the loop was left

vars == <<loader, max_iterations, pc, lessons, ege_slots, p1_warnings, cache,
          p2_stats,
          queue, subject_idx, hour, scored_slots, days_used, placed,
          lessons_by_slot, best_schedule, best_metric, current_metric,
          p3_stats, temperature, no_improvement_count, iteration,
          swap_result, exit>>

input_vars == <<loader, max_iterations>>
p1_vars == <<ege_slots, p1_warnings>>
p2_vars == <<cache, p2_stats, queue, subject_idx, hour, scored_slots,
             days_used, placed>>
p3_vars == <<lessons_by_slot, best_schedule, best_metric, current_metric,
             p3_stats, temperature, no_improvement_count, iteration,
             swap_result, exit>>

EmptyCache(ld) ==
    [teacher |-> [t \in Teachers |-> {}],
     class |-> [c \in AllLabels(ld) |-> {}],
     classroom |-> [r \in RoomNumbers(ld) |-> {}]]

\* the state of a run before its first phase, for a given loader
Constructed ==
    /\ pc = "phase1"
    /\ lessons = <<>>
    /\ ege_slots = <<>>
    /\ p1_warnings = <<>>
    /\ cache = EmptyCache(loader)
    /\ p2_stats = [total_required |-> 0, placed |-> 0, failed |-> 0,
                   conflicts |-> <<>>]
    /\ queue = <<>>
    /\ subject_idx = 0
    /\ hour = 0
    /\ scored_slots = <<>>
    /\ days_used = {}
    /\ placed = 0
    /\ lessons_by_slot = [s \in AllSlots |-> <<>>]
    /\ best_schedule = <<>>
    /\ best_metric = Infinity
    /\ current_metric = 0
    /\ p3_stats = [initial_metric |-> 0, final_metric |-> 0, improvements |-> 0,
                   iterations |-> 0, accepted_worse |-> 0]
    /\ temperature = 0
    /\ no_improvement_count = 0
    /\ iteration = 0
    /\ swap_result = <<>>
    /\ exit = "none"

Init ==
    /\ loader \in Inputs
    /\ max_iterations \in IterationChoices(loader)
    /\ Constructed

\* ------------------------------------------------------------- Phase 1
\* ScheduleGenerator.place_ege_practices
place_ege_practices ==
    /\ pc = "phase1"
    /\ IF loader.ege_groups = <<>>
       THEN UNCHANGED <<ege_slots, p1_warnings, lessons>>
       ELSE LET slots == find_ege_practice_slots(loader, max_hours(loader))
            IN /\ ege_slots' = slots
               /\ lessons' = PlaceSlots(loader, lessons, slots, 1)
               /\ p1_warnings' = UnavailableWarnings(loader, <<>>, slots, 1)
    /\ pc' = "phase2_new"
    /\ UNCHANGED <<input_vars, p2_vars, p3_vars>>

\* ------------------------------------------------------------- Phase 2
\* Phase2MandatoryPlacer.__init__
Phase2MandatoryPlacer ==
    /\ pc = "phase2_new"
    /\ cache' = _build_cache(loader, lessons)
    /\ p2_stats' = [total_required |-> 0, placed |-> 0, failed |-> 0,
                    conflicts |-> <<>>]
    /\ pc' = "phase2_start"
    /\ UNCHANGED <<input_vars, lessons, p1_vars, queue, subject_idx, hour,
                   scored_slots, days_used, placed, p3_vars>>

\* place_all_mandatory_subjects up to its placement loops
place_all_mandatory_subjects ==
    /\ pc = "phase2_start"
    /\ p2_stats' = [p2_stats EXCEPT !.total_required =
          SumSet(mandatory_subjects(loader),
                 [i \in mandatory_subjects(loader) |->
                    loader.subjects[i].hours_per_week])]
    /\ queue' = PlacementOrder(loader)
    /\ subject_idx' = 1
    /\ pc' = "phase2_subject"
    /\ UNCHANGED <<input_vars, lessons, p1_vars, cache, hour, scored_slots,
                   days_used, placed, p3_vars>>

CurrentSubject == loader.subjects[queue[subject_idx]]

\* the loops of place_all_mandatory_subjects have a subject left
SubjectsLeft == subject_idx <= Len(queue)

\* _place_subject up to its loop over the hours
_place_subject ==
    /\ pc = "phase2_subject"
    /\ SubjectsLeft
    /\ placed' = 0
    /\ scored_slots' = _evaluate_all_slots(loader, cache, Range(ege_slots),
                          CurrentSubject, _is_hard_subject(CurrentSubject))
    /\ days_used' = {}
    /\ hour' = 0
    /\ pc' = "phase2_hour"
    /\ UNCHANGED <<input_vars, lessons, p1_vars, cache, p2_stats, queue,
                   subject_idx, p3_vars>>

BestSlot ==
    _find_best_slot(loader, cache, Range(ege_slots), scored_slots,
                    CurrentSubject, days_used)

\* the loop of _place_subject has an hour left
HoursLeft == hour < CurrentSubject.hours_per_week

\* class_name of _place_subject
ClassNameOf(subject) ==
    IF subject.classes # <<>> THEN subject.classes[1] ELSE "unknown"

\* one pass of the loop of _place_subject that finds a slot (lines 195-218)
PlaceHour ==
    /\ pc = "phase2_hour"
    /\ HoursLeft
    /\ BestSlot # NoSlot
    /\ LET best_slot == BestSlot
           classroom == _find_classroom(loader, cache, CurrentSubject, best_slot)
           lesson == Lesson(CurrentSubject.name, CurrentSubject.teacher,
                            ClassNameOf(CurrentSubject), classroom, best_slot,
                            FALSE, 0)
       IN /\ lessons' = Append(lessons, lesson)
          /\ cache' = _update_cache(cache, lesson)
          /\ placed' = placed + 1
          /\ p2_stats' = [p2_stats EXCEPT !.placed = @ + 1]
          /\ days_used' = days_used \cup {best_slot.day}
          /\ scored_slots' = SelectSeq(scored_slots,
                                       LAMBDA e : e[2] # best_slot)
    /\ hour' = hour + 1
    /\ UNCHANGED <<input_vars, pc, p1_vars, queue, subject_idx, p3_vars>>

\* FailHour without the count of the failure (line 187 left out)
FailHour_Uncounted ==
    /\ pc = "phase2_hour"
    /\ HoursLeft
    /\ BestSlot = NoSlot
    /\ p2_stats' = [p2_stats EXCEPT
          !.conflicts = Append(@, [subject |-> CurrentSubject.name,
                                   class |-> ClassNameOf(CurrentSubject),
                                   teacher |-> CurrentSubject.teacher,
                                   reason |-> "no_available_slot"])]
    /\ hour' = hour + 1
    /\ UNCHANGED <<input_vars, pc, lessons, p1_vars, cache, queue, subject_idx,
                   scored_slots, days_used, placed, p3_vars>>

\* one pass of the loop of _place_subject that finds no slot (lines 185-193)
FailHour ==
    /\ pc = "phase2_hour"
    /\ HoursLeft
    /\ BestSlot = NoSlot
    /\ p2_stats' = [p2_stats EXCEPT
          !.failed = @ + 1,
          !.conflicts = Append(@, [subject |-> CurrentSubject.name,
                                   class |-> ClassNameOf(CurrentSubject),
                                   teacher |-> CurrentSubject.teacher,
                                   reason |-> "no_available_slot"])]
    /\ hour' = hour + 1
    /\ UNCHANGED <<input_vars, pc, lessons, p1_vars, cache, queue, subject_idx,
                   scored_slots, days_used, placed, p3_vars>>

\* return of _place_subject: on to the next subject of the loops
SubjectDone ==
    /\ pc = "phase2_hour"
    /\ ~HoursLeft
    /\ subject_idx' = subject_idx + 1
    /\ pc' = "phase2_subject"
    /\ UNCHANGED <<input_vars, lessons, p1_vars, cache, p2_stats, queue, hour,
                   scored_slots, days_used, placed, p3_vars>>

\* return of place_all_mandatory_subjects
Phase2Done ==
    /\ pc = "phase2_subject"
    /\ ~SubjectsLeft
    /\ pc' = "phase3_new"
    /\ UNCHANGED <<input_vars, lessons, p1_vars, p2_vars, p3_vars>>

\* ------------------------------------------------------------- Phase 3
\* Phase3Optimizer.__init__
Phase3Optimizer ==
    /\ pc = "phase3_new"
    /\ best_schedule' = <<>>
    /\ best_metric' = Infinity
    /\ p3_stats' = [initial_metric |-> 0, final_metric |-> 0, improvements |-> 0,
                    iterations |-> 0, accepted_worse |-> 0]
    /\ lessons_by_slot' = _build_indices(lessons)
    /\ pc' = "optimize"
    /\ UNCHANGED <<input_vars, lessons, p1_vars, p2_vars, current_metric,
                   temperature, no_improvement_count, iteration, swap_result,
                   exit>>

\* optimize up to its loop (lines 84-95)
optimize ==
    /\ pc = "optimize"
    /\ LET initial_metric == _calculate_quality_metric(lessons)
       IN /\ current_metric' = initial_metric
          /\ p3_stats' = [p3_stats EXCEPT !.initial_metric = initial_metric]
          /\ best_metric' = initial_metric
    /\ best_schedule' = _copy_schedule(lessons)
    /\ temperature' = initial_temperature
    /\ no_improvement_count' = 0
    /\ iteration' = 0
    /\ pc' = "loop"
    /\ UNCHANGED <<input_vars, lessons, p1_vars, p2_vars, lessons_by_slot,
                   swap_result, exit>>

\* the lessons lesson1 of _find_and_try_swap can be drawn from: the problem
\* lessons when there are some and random.random() < 0.7, else all lessons
FirstLessonPools ==
    {DOMAIN lessons} \cup
    (IF _find_problem_lessons(lessons) # {}
     THEN {_find_problem_lessons(lessons)} ELSE {})

\* the for loop of optimize has an iteration left
IterationsLeft == iteration < max_iterations

\* _find_and_try_swap can return None: fewer than two lessons, or a lesson1
\* without candidates
NoSwapFound ==
    \/ Len(lessons) < 2
    \/ \E pool \in FirstLessonPools : \E lesson1 \in pool :
          _find_swap_candidates(loader, lessons, lessons_by_slot, lesson1) = {}

\* SkipIteration of a loop that runs one iteration too many
SkipIteration_OneMore ==
    /\ pc = "loop"
    /\ iteration <= max_iterations
    /\ NoSwapFound
    /\ p3_stats' = [p3_stats EXCEPT !.iterations = iteration + 1]
    /\ iteration' = iteration + 1
    /\ UNCHANGED <<input_vars, pc, lessons, p1_vars, p2_vars, lessons_by_slot,
                   best_schedule, best_metric, current_metric, temperature,
                   no_improvement_count, swap_result, exit>>

\* SkipIteration that counts the iteration as one without improvement
SkipIteration_Counted ==
    /\ pc = "loop"
    /\ IterationsLeft
    /\ NoSwapFound
    /\ p3_stats' = [p3_stats EXCEPT !.iterations = iteration + 1]
    /\ iteration' = iteration + 1
    /\ no_improvement_count' = no_improvement_count + 1
    /\ UNCHANGED <<input_vars, pc, lessons, p1_vars, p2_vars, lessons_by_slot,
                   best_schedule, best_metric, current_metric, temperature,
                   swap_result, exit>>

\* SkipIteration that cools the temperature as a swapping iteration does
SkipIteration_Cools ==
    /\ pc = "loop"
    /\ IterationsLeft
    /\ NoSwapFound
    /\ p3_stats' = [p3_stats EXCEPT !.iterations = iteration + 1]
    /\ iteration' = iteration + 1
    /\ temperature' = Cool(temperature)
    /\ UNCHANGED <<input_vars, pc, lessons, p1_vars, p2_vars, lessons_by_slot,
                   best_schedule, best_metric, current_metric,
                   no_improvement_count, swap_result, exit>>

\* an iteration in which _find_and_try_swap returns None (lines 98-104)
SkipIteration ==
    /\ pc = "loop"
    /\ IterationsLeft
    /\ NoSwapFound
    /\ p3_stats' = [p3_stats EXCEPT !.iterations = iteration + 1]
    /\ iteration' = iteration + 1
    /\ UNCHANGED <<input_vars, pc, lessons, p1_vars, p2_vars, lessons_by_slot,
                   best_schedule, best_metric, current_metric, temperature,
                   no_improvement_count, swap_result, exit>>

\* an iteration in which _find_and_try_swap swaps two lessons (lines 98-106)
TrySwap ==
    /\ pc = "loop"
    /\ IterationsLeft
    /\ Len(lessons) >= 2
    /\ \E pool \in FirstLessonPools : \E lesson1 \in pool :
         \E lesson2 \in _find_swap_candidates(loader, lessons, lessons_by_slot,
                                              lesson1) :
            LET after == _swap_lessons(lessons, lessons_by_slot, lesson1, lesson2)
            IN /\ lessons' = after.lessons
               /\ lessons_by_slot' = after.lessons_by_slot
               /\ swap_result' = <<lesson1, lesson2,
                                   _calculate_quality_metric(after.lessons)>>
    /\ p3_stats' = [p3_stats EXCEPT !.iterations = iteration + 1]
    /\ pc' = "decide"
    /\ UNCHANGED <<input_vars, p1_vars, p2_vars, best_schedule, best_metric,
                   current_metric, temperature, no_improvement_count, iteration,
                   exit>>

\* end of a loop body that swapped: cooling and early stop (lines 135-141)
EndOfIteration(count) ==
    /\ temperature' = Cool(temperature)
    /\ swap_result' = <<>>
    /\ no_improvement_count' = count
    /\ IF count >= max_no_improvement
       THEN /\ exit' = "converged"
            /\ pc' = "finalize"
            /\ UNCHANGED iteration
       ELSE /\ iteration' = iteration + 1
            /\ pc' = "loop"
            /\ UNCHANGED exit

\* delta < 0: the swap is kept (lines 111-122)
KeepImprovement ==
    /\ pc = "decide"
    /\ swap_result[3] - current_metric < 0
    /\ current_metric' = swap_result[3]
    /\ p3_stats' = [p3_stats EXCEPT !.improvements = @ + 1]
    /\ IF swap_result[3] < best_metric
       THEN /\ best_metric' = swap_result[3]
            /\ best_schedule' = _copy_schedule(lessons)
       ELSE UNCHANGED <<best_metric, best_schedule>>
    /\ EndOfIteration(0)
    /\ UNCHANGED <<input_vars, lessons, p1_vars, p2_vars, lessons_by_slot>>

\* AcceptWorse that also records the accepted schedule as the best one
AcceptWorse_AsBest ==
    /\ pc = "decide"
    /\ swap_result[3] - current_metric >= 0
    /\ MayAccept(swap_result[3] - current_metric, temperature)
    /\ current_metric' = swap_result[3]
    /\ best_metric' = swap_result[3]
    /\ best_schedule' = _copy_schedule(lessons)
    /\ p3_stats' = [p3_stats EXCEPT !.accepted_worse = @ + 1]
    /\ EndOfIteration(no_improvement_count + 1)
    /\ UNCHANGED <<input_vars, lessons, p1_vars, p2_vars, lessons_by_slot>>

\* AcceptWorse that resets the plateau counter as an improvement does
AcceptWorse_ResetsPlateau ==
    /\ pc = "decide"
    /\ swap_result[3] - current_metric >= 0
    /\ MayAccept(swap_result[3] - current_metric, temperature)
    /\ current_metric' = swap_result[3]
    /\ p3_stats' = [p3_stats EXCEPT !.accepted_worse = @ + 1]
    /\ EndOfIteration(0)
    /\ UNCHANGED <<input_vars, lessons, p1_vars, p2_vars, lessons_by_slot,
                   best_schedule, best_metric>>

\* delta >= 0 and the Metropolis draw accepts (lines 124-128)
AcceptWorse ==
    /\ pc = "decide"
    /\ swap_result[3] - current_metric >= 0
    /\ MayAccept(swap_result[3] - current_metric, temperature)
    /\ current_metric' = swap_result[3]
    /\ p3_stats' = [p3_stats EXCEPT !.accepted_worse = @ + 1]
    /\ EndOfIteration(no_improvement_count + 1)
    /\ UNCHANGED <<input_vars, lessons, p1_vars, p2_vars, lessons_by_slot,
                   best_schedule, best_metric>>

\* Rollback that takes the metric of the undone swap as the current one
Rollback_NewMetric ==
    /\ pc = "decide"
    /\ swap_result[3] - current_metric >= 0
    /\ \/ MayReject(swap_result[3] - current_metric, temperature)
       \/ ~MayAccept(swap_result[3] - current_metric, temperature)
    /\ LET back == _swap_lessons(lessons, lessons_by_slot, swap_result[1],
                                 swap_result[2])
       IN /\ lessons' = back.lessons
          /\ lessons_by_slot' = back.lessons_by_slot
    /\ current_metric' = swap_result[3]
    /\ EndOfIteration(no_improvement_count + 1)
    /\ UNCHANGED <<input_vars, p1_vars, p2_vars, best_schedule, best_metric,
                   p3_stats>>

\* delta >= 0 and the Metropolis draw rejects: the swap is undone (129-132)
Rollback ==
    /\ pc = "decide"
    /\ swap_result[3] - current_metric >= 0
    /\ \/ MayReject(swap_result[3] - current_metric, temperature)
       \/ ~MayAccept(swap_result[3] - current_metric, temperature)
    /\ LET back == _swap_lessons(lessons, lessons_by_slot, swap_result[1],
                                 swap_result[2])
       IN /\ lessons' = back.lessons
          /\ lessons_by_slot' = back.lessons_by_slot
    /\ EndOfIteration(no_improvement_count + 1)
    /\ UNCHANGED <<input_vars, p1_vars, p2_vars, best_schedule, best_metric,
                   current_metric, p3_stats>>

\* the for loop runs out of iterations
Exhausted ==
    /\ pc = "loop"
    /\ ~IterationsLeft
    /\ exit' = "exhausted"
    /\ pc' = "finalize"
    /\ UNCHANGED <<input_vars, lessons, p1_vars, p2_vars, lessons_by_slot,
                   best_schedule, best_metric, current_metric, p3_stats,
                   temperature, no_improvement_count, iteration, swap_result>>

\* Finalize that returns the working schedule of the end of the run
Finalize_WorkingSchedule ==
    /\ pc = "finalize"
    /\ p3_stats' = [p3_stats EXCEPT !.final_metric = best_metric]
    /\ pc' = "done"
    /\ UNCHANGED <<input_vars, lessons, p1_vars, p2_vars, lessons_by_slot,
                   best_schedule, best_metric, current_metric, temperature,
                   no_improvement_count, iteration, swap_result, exit>>

\* the best snapshot is restored and returned (lines 143-151)
Finalize ==
    /\ pc = "finalize"
    /\ lessons' = best_schedule
    /\ lessons_by_slot' = _build_indices(best_schedule)
    /\ p3_stats' = [p3_stats EXCEPT !.final_metric = best_metric]
    /\ pc' = "done"
    /\ UNCHANGED <<input_vars, p1_vars, p2_vars, best_schedule, best_metric,
                   current_metric, temperature, no_improvement_count, iteration,
                   swap_result, exit>>

Next ==
    \/ place_ege_practices
    \/ Phase2MandatoryPlacer
    \/ place_all_mandatory_subjects
    \/ _place_subject
    \/ PlaceHour
    \/ FailHour
    \/ SubjectDone
    \/ Phase2Done
    \/ Phase3Optimizer
    \/ optimize
    \/ SkipIteration
    \/ TrySwap
    \/ KeepImprovement
    \/ AcceptWorse
    \/ Rollback
    \/ Exhausted
    \/ Finalize

Spec == Init /\ [][Next]_vars

\* ------------------------------------ the reserved slots of longer practices
\* loaders whose exam-practice groups have up to MaxGroupHours hours per
\* week, more than the grid has slots
MaxGroupHours == 36

LongGroupChoices ==
    {<<EGEPracticeGroup("g1", "T1", 15, h)>> : h \in 1..MaxGroupHours}
    \cup {<<EGEPracticeGroup("g1", "T2", 15, 1),
            EGEPracticeGroup("g2", "T1", 25, h)>> : h \in 1..MaxGroupHours}

SlotsInputs ==
    [unavailable_days : UnavailableChoices,
     home_classroom : {[T1 |-> NoClassroom, T2 |-> NoClassroom]},
     classrooms : ClassroomChoices,
     ege_groups : LongGroupChoices,
     subjects : {<<>>},
     seed : 0..MaxSeed]

SlotsInit ==
    /\ loader \in SlotsInputs
    /\ max_iterations = 0
    /\ Constructed

\* place_ege_practices up to its placement loop: max_hours and the call of
\* find_ege_practice_slots (lines 139-143)
reserve_ege_slots ==
    /\ pc = "phase1"
    /\ ege_slots' = find_ege_practice_slots(loader, max_hours(loader))
    /\ pc' = "phase1_slots"
    /\ UNCHANGED <<input_vars, lessons, p1_warnings, p2_vars, p3_vars>>

SlotsSpec == SlotsInit /\ [][reserve_ege_slots]_vars

\* ------------------------------------- Phase 1 and Phase 2 on more loaders
\* loaders whose teachers crowd one weekday: T2 works on Mondays only and
\* teaches class A up to MaxLoadHours hours, T1 teaches class A two more
\* requirements, a longer and a one-hour one
MaxLoadHours == 5

LoadedSubjectChoices ==
    {<<Subject("nemeckij", "mandatory", k, "T2", <<"A">>),
       Subject("algebra", "mandatory", j, "T1", <<"A">>),
       Subject("istoriya", "mandatory", 1, "T1", <<"A">>)>> :
          k \in 1..MaxLoadHours, j \in 1..2}
    \cup {<<Subject("istoriya", "mandatory", k, "T2", <<"A">>),
            Subject("istoriya", "mandatory", j, "T1", <<"A">>),
            Subject("algebra", "mandatory", 1, "T1", <<"A">>)>> :
          k \in 1..MaxLoadHours, j \in 1..2}

LoadedInputs ==
    {ld \in [unavailable_days : {[T1 |-> u1, T2 |-> {2, 3, 4, 5}] :
                                    u1 \in {{}, {2, 3, 4, 5}}},
             home_classroom : {[T1 |-> NoClassroom, T2 |-> NoClassroom]},
             classrooms : {<<Classroom("R1", 20)>>},
             ege_groups : {<<>>, <<EGEPracticeGroup("g1", "T1", 15, 1)>>},
             subjects : LoadedSubjectChoices,
             seed : 0..MaxSeed] :
        ld.ege_groups = <<>> => ld.seed = 0}

\* loaders with a requirement that lists two classes, followed in the
\* placement order by a requirement of the second class
SharedSubjectChoices ==
    {<<Subject("istoriya", "mandatory", 1, "T2", <<"A", "B">>),
       Subject("istoriya", "mandatory", 1, "T1", <<"B">>)>>,
     <<Subject("nemeckij", "mandatory", 2, "T2", <<"A", "B">>),
       Subject("algebra", "mandatory", 1, "T1", <<"B">>)>>,
     <<Subject("nemeckij", "mandatory", 1, "T2", <<"A", "B">>),
       Subject("algebra", "mandatory", 1, "T1", <<"B">>)>>,
     <<Subject("istoriya", "mandatory", 2, "T1", <<"B", "A">>),
       Subject("istoriya", "mandatory", 1, "T2", <<"A">>)>>}

SharedInputs ==
    [unavailable_days : {[T1 |-> u1, T2 |-> {}] : u1 \in {{}, {1}}},
     home_classroom : {[T1 |-> NoClassroom, T2 |-> NoClassroom]},
     classrooms : ClassroomChoices,
     ege_groups : {<<>>},
     subjects : SharedSubjectChoices,
     seed : {0}]

PlacementInit ==
    /\ loader \in LoadedInputs \cup SharedInputs
    /\ max_iterations = 0
    /\ Constructed

\* Phase 1 and Phase 2, as main.py runs them before the optimizer
PlacementNext ==
    \/ place_ege_practices
    \/ Phase2MandatoryPlacer
    \/ place_all_mandatory_subjects
    \/ _place_subject
    \/ PlaceHour
    \/ FailHour
    \/ SubjectDone
    \/ Phase2Done

PlacementSpec == PlacementInit /\ [][PlacementNext]_vars

\* ================================================================ claims
\* the schedule as a phase leaves it: after Phase 1, Phase 2 and Phase 3
AfterPhase == pc \in {"phase2_new", "phase3_new", "done"}

\* the working schedule of Phase 3 between two iterations: the schedule
\* optimize started from or the one the last committed or undone swap left
BetweenIterations == pc \in {"loop", "finalize"}

TeacherClash(ls) ==
    \E i, j \in DOMAIN ls :
        /\ i # j
        /\ ls[i].teacher = ls[j].teacher
        /\ ls[i].time_slot = ls[j].time_slot

ClassroomClash(ls) ==
    \E i, j \in DOMAIN ls :
        /\ i # j
        /\ ls[i].classroom # NoClassroom
        /\ ls[i].classroom = ls[j].classroom
        /\ ls[i].time_slot = ls[j].time_slot

LabelClash(ls) ==
    \E i, j \in DOMAIN ls :
        /\ i # j
        /\ ls[i].class_or_group = ls[j].class_or_group
        /\ ls[i].time_slot = ls[j].time_slot

\* C1: after each of the three phases no two distinct lessons have the same
\* teacher and the same time slot, whatever the input (two exam-practice
\* groups of one teacher included).
C1_NoTeacherDoubleBooking ==
    AfterPhase => ~TeacherClash(lessons)

\* C2: after each of the three phases and after every committed swap of
\* Phase 3 no two distinct lessons that both have a classroom share the
\* classroom and the time slot, also when only one of the two swapped lessons
\* has a classroom.
C2_NoClassroomDoubleBooking ==
    (AfterPhase \/ BetweenIterations) => ~ClassroomClash(lessons)

\* C3: after each of the three phases no two distinct lessons have the same
\* class-or-group label and the same time slot (the exam-practice groups
\* have pairwise distinct subjects).
C3_NoLabelDoubleBooking ==
    AfterPhase => ~LabelClash(lessons)

\* Phase 3 returned a schedule it improved, in which two lessons of one label
\* lie on different slots and one slot holds two lessons
C3_Witness ==
    /\ pc = "done"
    /\ p3_stats.improvements > 0
    /\ \E i, j \in DOMAIN lessons :
          /\ i # j
          /\ lessons[i].class_or_group = lessons[j].class_or_group
    /\ \E i, j \in DOMAIN lessons :
          /\ i # j
          /\ lessons[i].time_slot = lessons[j].time_slot

\* C4: in every state of Phase 1, Phase 2 and Phase 3, the speculative and
\* the rolled-back swaps included, no lesson is on a weekday of its teacher's
\* unavailable days.
C4_TeacherAvailable ==
    \A i \in DOMAIN lessons :
        Teacher_is_available(loader, lessons[i].teacher, lessons[i].time_slot.day)

\* a speculative swap has just moved a lesson of a teacher with unavailable
\* days to another weekday
C4_Witness ==
    /\ pc = "decide"
    /\ lessons[swap_result[1]].time_slot.day # lessons[swap_result[2]].time_slot.day
    /\ \E i \in {swap_result[1], swap_result[2]} :
          loader.unavailable_days[lessons[i].teacher] # {}

\* C5: after every phase, Phase 3 with its swaps between an exam-practice
\* lesson and an ordinary lesson included, every exam-practice lesson lies on
\* a slot of the reserved-slot set Phase 1 chose.
C5_PracticesOnReservedSlots ==
    AfterPhase =>
        \A i \in DOMAIN lessons :
            lessons[i].is_ege_practice => lessons[i].time_slot \in Range(ege_slots)

\* Phase 3 from the start of its loop on
Annealing == pc \in {"loop", "decide", "finalize", "done"}

\* C6: optimize returns the best snapshot, not the working schedule of the
\* end of the run: the returned schedule is the snapshot, its metric is the
\* reported final_metric and is at most the initial metric; after every step
\* of the loop best_metric is at most the metric of the working schedule the
\* step started from and never rises afterwards, so the final metric is at
\* most the metric of every working state; the snapshot's own metric stays
\* best_metric and a step that swaps lessons leaves the snapshot as it is.
C6_ReturnsBestSnapshot ==
    /\ [](pc = "done" =>
            /\ lessons = best_schedule
            /\ _calculate_quality_metric(lessons) = p3_stats.final_metric
            /\ p3_stats.final_metric <= p3_stats.initial_metric)
    /\ [](Annealing => _calculate_quality_metric(best_schedule) = best_metric)
    /\ [][(pc = "loop" \/ pc = "decide") =>
            (/\ best_metric' <= _calculate_quality_metric(lessons)
             /\ best_metric' <= best_metric
             /\ (lessons' # lessons => best_schedule' = best_schedule))]_vars

\* optimize has returned a snapshot better than the initial schedule after
\* the working schedule had become worse than the snapshot
C6_Witness ==
    /\ pc = "done"
    /\ p3_stats.final_metric < p3_stats.initial_metric
    /\ p3_stats.final_metric < current_metric
    /\ p3_stats.accepted_worse > 0

\* C7: best_metric never increases from one iteration of the Phase 3 loop to
\* the next, and it is never greater than the current working metric.
C7_BestMetricMonotone ==
    /\ [][best_metric' <= best_metric]_vars
    /\ [](Annealing => best_metric <= current_metric)
    /\ [](pc = "loop" => best_metric <= _calculate_quality_metric(lessons))

\* between two iterations, after an improvement lowered best_metric and an
\* accepted worse swap raised the working metric above it
C7_Witness ==
    /\ pc = "loop"
    /\ p3_stats.improvements > 0
    /\ best_metric < p3_stats.initial_metric
    /\ best_metric < current_metric

\* steps the run can still take at most: 0 when optimize has returned; every
\* step of every phase lowers it
StepsLeft ==
    LET budget == 2 * (max_iterations - iteration)
        loops == 2 * max_iterations + 3
        K == 2 + MaxLessons
        subjects(n) == loops + 3 + n * K
    IN CASE pc = "done" -> 0
         [] pc = "finalize" -> 1
         [] pc = "decide" -> budget + 2
         [] pc = "loop" -> budget + 3
         [] pc = "optimize" -> loops + 1
         [] pc = "phase3_new" -> loops + 2
         [] pc = "phase2_subject" -> subjects(Len(queue) + 1 - subject_idx)
         [] pc = "phase2_hour" ->
                subjects(Len(queue) + 1 - subject_idx) - 1 - hour
         [] pc = "phase2_start" ->
                subjects(Len(PlacementOrder(loader)) + 1) + 1
         [] pc = "phase2_new" ->
                subjects(Len(PlacementOrder(loader)) + 1) + 2
         [] pc = "phase1" ->
                subjects(Len(PlacementOrder(loader)) + 1) + 3

\* some branch of the code can be taken in the state: no call, loop test or
\* decision of the three phases is without a way on
CanProceed ==
    \/ pc \in {"phase1", "phase2_new", "phase2_start", "phase3_new",
               "optimize", "finalize"}
    \/ pc = "phase2_subject" /\ (SubjectsLeft \/ ~SubjectsLeft)
    \/ pc = "phase2_hour" /\ (~HoursLeft \/ BestSlot # NoSlot \/ BestSlot = NoSlot)
    \/ /\ pc = "loop"
       /\ \/ ~IterationsLeft
          \/ NoSwapFound
          \/ \E lesson1 \in DOMAIN lessons :
                _find_swap_candidates(loader, lessons, lessons_by_slot,
                                      lesson1) # {}
    \/ /\ pc = "decide"
       /\ LET delta == swap_result[3] - current_metric
          IN \/ delta < 0
             \/ MayAccept(delta, temperature)
             \/ MayReject(delta, temperature)
             \/ ~MayAccept(delta, temperature)

\* C8: optimize terminates for every input and every max_iterations >= 0
\* after at most max_iterations iterations: every step of the run lowers the
\* number of steps left, which is never negative, and every state before the
\* end has a way on, so the run ends and no phase stops before its end; the
\* loop is left by the plateau (converged) or by the end of the budget
\* (exhausted), and in both cases the best snapshot is restored.
C8_Terminates ==
    /\ [][StepsLeft' < StepsLeft]_vars
    /\ [](StepsLeft >= 0 /\ (pc # "done" => CanProceed))
    /\ [](iteration <= max_iterations /\ p3_stats.iterations <= max_iterations)
    /\ [](pc \in {"finalize", "done"} <=> exit \in {"converged", "exhausted"})
    /\ [](exit = "converged" => no_improvement_count >= max_no_improvement)
    /\ [](exit = "exhausted" => iteration = max_iterations)
    /\ [](pc = "done" =>
            lessons = best_schedule /\ p3_stats.final_metric = best_metric)

\* the loop was left by the plateau before the budget ran out, and the best
\* snapshot has been restored
C8_Witness ==
    /\ pc = "done"
    /\ exit = "converged"
    /\ iteration < max_iterations

\* C9: in every schedule state of Phase 3, _can_swap(a, b) = _can_swap(b, a)
\* for every pair of lessons a and b.
C9_CanSwapSymmetric ==
    pc \in {"optimize", "loop", "decide", "finalize", "done"} =>
        \A a, b \in DOMAIN lessons :
            _can_swap(loader, lessons, lessons_by_slot, a, b)
              = _can_swap(loader, lessons, lessons_by_slot, b, a)

\* a Phase 3 state after a swap with a pair that can be swapped, a pair on
\* different slots that cannot, and a lesson without a classroom
C9_Witness ==
    /\ pc = "decide"
    /\ \E a, b \in DOMAIN lessons :
          _can_swap(loader, lessons, lessons_by_slot, a, b)
    /\ \E a, b \in DOMAIN lessons :
          /\ lessons[a].time_slot # lessons[b].time_slot
          /\ ~_can_swap(loader, lessons, lessons_by_slot, a, b)
    /\ \E a \in DOMAIN lessons : lessons[a].classroom = NoClassroom

\* _place_subject stands before an hour for which _find_best_slot finds
\* no legal slot
NoLegalSlot ==
    /\ pc = "phase2_hour"
    /\ HoursLeft
    /\ BestSlot = NoSlot

OrdinaryLessons(ls) == {i \in DOMAIN ls : ~ls[i].is_ege_practice}

\* C10: when a required hour has no legal slot, Phase 2 counts one failure
\* and appends one entry to the failure list, adds no lesson, leaves the
\* schedule and the occupancy index as they are, and goes on to the next
\* hour; no hour is tried twice: at the end of Phase 2 every hour asked for
\* is either placed or failed, once.
C10_UnplaceableHour ==
    /\ [][NoLegalSlot =>
            (/\ p2_stats'.failed = p2_stats.failed + 1
             /\ Len(p2_stats'.conflicts) = Len(p2_stats.conflicts) + 1
             /\ p2_stats'.placed = p2_stats.placed
             /\ lessons' = lessons
             /\ cache' = cache
             /\ hour' = hour + 1
             /\ subject_idx' = subject_idx
             /\ pc' = "phase2_hour")]_vars
    /\ [](pc = "phase3_new" =>
            /\ p2_stats.placed + p2_stats.failed = SubjectHours(loader.subjects)
            /\ Len(p2_stats.conflicts) = p2_stats.failed
            /\ Cardinality(OrdinaryLessons(lessons)) = p2_stats.placed)

\* after the failed hours of an earlier requirement, a later requirement has
\* had an hour placed
C10_Witness ==
    /\ pc = "phase2_hour"
    /\ subject_idx > 1
    /\ p2_stats.failed > 0
    /\ placed > 0
    /\ hour = placed


\* lessons Phase 1 made for a group, and the lines it printed about it
GroupLessons(ls, group) ==
    {i \in DOMAIN ls : /\ ls[i].is_ege_practice
                       /\ ls[i].class_or_group = GroupLabel(group.subject)}

GroupWarnings(ws, group) == {i \in DOMAIN ws : ws[i].subject = group.subject}

\* the hours of a group (positions in ege_slots) whose day the teacher has
AvailableHours(group) ==
    {k \in 1..group.hours_per_week :
        Teacher_is_available(loader, group.teacher, ege_slots[k].day)}

C11_WitnessNever ==
    /\ pc = "phase2_new"
    /\ \E g \in DOMAIN loader.ege_groups :
          LET group == loader.ege_groups[g]
          IN /\ group.hours_per_week = 2
             /\ loader.unavailable_days[group.teacher] = DayOfWeek
             /\ GroupLessons(lessons, group) = {}
             /\ Cardinality(GroupWarnings(p1_warnings, group)) = 2

\* a classroom of the loader, by its number
RoomCapacity(ld, number) ==
    LET i == CHOOSE j \in DOMAIN ld.classrooms : ld.classrooms[j].number = number
    IN ld.classrooms[i].capacity

\* the classroom is held at the slot of lesson i by a lesson placed before it
TakenBefore(ls, i, number) ==
    \E j \in 1..(i - 1) :
        ls[j].classroom = number /\ ls[j].time_slot = ls[i].time_slot

RequirementLessons(ls, subject) ==
    {i \in DOMAIN ls : /\ ~ls[i].is_ege_practice
                       /\ ls[i].subject = subject.name
                       /\ ls[i].teacher = subject.teacher
                       /\ ls[i].class_or_group \in Range(subject.classes)}

\* a placement of the current requirement has handled all its hours
PlacementEnds == pc = "phase2_hour" /\ ~HoursLeft

\* the number of legal slots there were when the placement started: the
\* scored list held them all, and loses one slot with every lesson placed
LegalSlotsAtStart == Len(scored_slots) + placed

\* C13: when the placement of a mandatory requirement with h hours per week
\* that started with at least h legal slots ends, the schedule holds exactly
\* h lessons of the requirement, on h pairwise distinct slots.
C13_PlacesAllHours ==
    (PlacementEnds /\ LegalSlotsAtStart >= CurrentSubject.hours_per_week) =>
        LET mine == RequirementLessons(lessons, CurrentSubject)
        IN /\ Cardinality(mine) = CurrentSubject.hours_per_week
           /\ \A i, j \in mine :
                 i # j => lessons[i].time_slot # lessons[j].time_slot

\* at most one lesson that day, or the lessons fill a run of periods
OneOrContiguous(ls, I, day) ==
    LET on == {i \in I : ls[i].time_slot.day = day}
        ps == {ls[i].time_slot.lesson_number : i \in on}
    IN \/ Cardinality(on) <= 1
       \/ \A a, b \in ps : \A n \in a..b : n \in ps

\* the gaps the optimizer's metric counts for one actor on one day
MetricGapsOfDay(ls, I, day) ==
    LET on == {i \in I : ls[i].time_slot.day = day}
    IN IF Cardinality(on) < 2 THEN 0 ELSE PairGaps(SortedNumbers(ls, on))

\* C14, as Schedule counts the gaps: never negative, none on a day with at
\* most one lesson or with contiguous periods
GapsOfScheduleSound(ls) ==
    /\ \A t \in Teachers :
          /\ get_teacher_gaps(ls, t) >= 0
          /\ \A day \in DayOfWeek :
                OneOrContiguous(ls, get_lessons_by_teacher(ls, t), day)
                => GapsOfDay(ls, get_lessons_by_teacher(ls, t), day) = 0
    /\ \A c \in Classes :
          /\ get_class_gaps(ls, c) >= 0
          /\ \A day \in DayOfWeek :
                OneOrContiguous(ls, get_lessons_by_class(ls, c), day)
                => GapsOfDay(ls, get_lessons_by_class(ls, c), day) = 0

\* C14, as the optimizer's metric counts the gaps
GapsOfMetricSound(ls) ==
    /\ _count_teacher_gaps(ls) >= 0
    /\ _count_class_gaps(ls) >= 0
    /\ \A t \in Teachers : \A day \in DayOfWeek :
          /\ MetricGapsOfDay(ls, lessons_by_teacher(ls, t), day) >= 0
          /\ OneOrContiguous(ls, lessons_by_teacher(ls, t), day)
             => MetricGapsOfDay(ls, lessons_by_teacher(ls, t), day) = 0
    /\ \A c \in Classes : \A day \in DayOfWeek :
          /\ MetricGapsOfDay(ls, lessons_by_class(ls, c), day) >= 0
          /\ OneOrContiguous(ls, lessons_by_class(ls, c), day)
             => MetricGapsOfDay(ls, lessons_by_class(ls, c), day) = 0

\* C14: in every schedule the three phases reach, the idle-gap count of every
\* teacher and cohort is >= 0 and is 0 on every day with at most one lesson
\* or with contiguous periods, both as Schedule.get_teacher_gaps and
\* get_class_gaps count it and as the optimizer's metric counts it.
C14_GapsNonNegative ==
    /\ GapsOfScheduleSound(lessons)
    /\ GapsOfMetricSound(lessons)

\* a lesson without its time slot, and a schedule's lessons without theirs
FieldsButSlot(lesson) ==
    [subject |-> lesson.subject, teacher |-> lesson.teacher,
     class_or_group |-> lesson.class_or_group, classroom |-> lesson.classroom,
     is_ege_practice |-> lesson.is_ege_practice, students |-> lesson.students]

WithoutSlots(ls) == [i \in DOMAIN ls |-> FieldsButSlot(ls[i])]

\* C15: Phase 3 adds no lesson, removes none and changes no field of a lesson
\* but the time slot: every step of Phase 3 leaves the lessons of the working
\* schedule, their slots aside, as they were, and the best snapshot holds the
\* same lessons, slots aside, so the schedule optimize returns holds the
\* lessons of the schedule it was given.
C15_OnlySlotsChange ==
    /\ [][(pc = "phase3_new" \/ pc = "optimize" \/ pc = "loop" \/ pc = "decide"
           \/ pc = "finalize")
          => (WithoutSlots(lessons') = WithoutSlots(lessons))]_vars
    /\ [](Annealing => WithoutSlots(best_schedule) = WithoutSlots(lessons))

\* optimize has returned a schedule in which a kept swap moved two lessons
C15_Witness ==
    /\ pc = "done"
    /\ p3_stats.improvements >= 1
    /\ \E i \in DOMAIN lessons :
          /\ lessons[i].is_ege_practice
          /\ lessons[i].time_slot \notin Range(ege_slots)

\* the step adds a lesson to the schedule during Phase 2
Phase2Places == pc = "phase2_hour" /\ Len(lessons') = Len(lessons) + 1

\* the label has a lesson at the slot
is_class_busy(ls, class_name, slot) ==
    \E i \in DOMAIN ls : ls[i].class_or_group = class_name /\ ls[i].time_slot = slot

\* C16: every lesson Phase 2 places is at a slot outside the reserved-slot set
\* of Phase 1, on a day its teacher is available, and at which, before the
\* placement, neither the teacher nor any cohort of the requirement has a
\* lesson in the schedule.
C16_Phase2SlotLegal ==
    [][Phase2Places =>
          (LET lesson == lessons'[Len(lessons')]
               slot == lesson.time_slot
           IN /\ lessons' = Append(lessons, lesson)
              /\ lesson.teacher = CurrentSubject.teacher
              /\ slot \in AllSlots
              /\ slot \notin Range(ege_slots)
              /\ Teacher_is_available(loader, lesson.teacher, slot.day)
              /\ ~is_teacher_busy(lessons, lesson.teacher, slot)
              /\ \A k \in DOMAIN CurrentSubject.classes :
                    ~is_class_busy(lessons, CurrentSubject.classes[k], slot))]_vars

\* Phase 2 has placed a lesson of a teacher who has days off and an
\* exam-practice lesson, for a class that already had a lesson
C16_Witness ==
    /\ pc = "phase2_hour"
    /\ placed >= 1
    /\ ege_slots # <<>>
    /\ loader.unavailable_days[CurrentSubject.teacher] # {}
    /\ \E i \in DOMAIN lessons :
          /\ lessons[i].is_ege_practice
          /\ lessons[i].teacher = CurrentSubject.teacher
    /\ \E i \in 1..(Len(lessons) - 1) :
          /\ ~lessons[i].is_ege_practice
          /\ lessons[i].class_or_group = lessons[Len(lessons)].class_or_group

\* the classrooms no lesson of the schedule has at the slot, by position
FreeRooms(ld, ls, slot) ==
    {i \in DOMAIN ld.classrooms :
        ~is_classroom_busy(ls, ld.classrooms[i].number, slot)}

\* the classroom the rule names: the teacher's home classroom when it is
\* free at the slot, else the first free classroom in index order
RoomByRule(ld, ls, teacher, slot) ==
    LET home == ld.home_classroom[teacher]
        free == FreeRooms(ld, ls, slot)
    IN IF \E i \in free : ld.classrooms[i].number = home THEN home
       ELSE ld.classrooms[CHOOSE i \in free : \A j \in free : i <= j].number

\* C17 as stated: every lesson Phase 2 places has a classroom that no lesson
\* of the schedule has at that slot at the moment of placement: the teacher's
\* home classroom when it is free at the slot, otherwise the first classroom
\* in index order that is free at the slot.
C17_AlwaysClassroom ==
    [][Phase2Places =>
          (LET lesson == lessons'[Len(lessons')]
               slot == lesson.time_slot
           IN /\ lesson.classroom # NoClassroom
              /\ lesson.classroom \in RoomNumbers(loader)
              /\ ~is_classroom_busy(lessons, lesson.classroom, slot)
              /\ lesson.classroom
                 = RoomByRule(loader, lessons, lesson.teacher, slot))]_vars

\* C17, amended: a lesson Phase 2 places at a slot at which some classroom is
\* free gets a free classroom, the teacher's home classroom when that is
\* free at the slot and otherwise the first free classroom in index order; a
\* lesson placed at a slot at which every classroom is taken gets none.
C17_ClassroomWhenFree ==
    [][Phase2Places =>
          (LET lesson == lessons'[Len(lessons')]
               slot == lesson.time_slot
           IN IF FreeRooms(loader, lessons, slot) = {}
              THEN lesson.classroom = NoClassroom
              ELSE /\ lesson.classroom \in RoomNumbers(loader)
                   /\ ~is_classroom_busy(lessons, lesson.classroom, slot)
                   /\ lesson.classroom
                      = RoomByRule(loader, lessons, lesson.teacher, slot))]_vars

\* Phase 2 has placed a lesson in the teacher's home classroom, which is not
\* the first classroom in index order
C17_Witness ==
    /\ pc = "phase2_hour"
    /\ placed >= 1
    /\ Len(loader.classrooms) = 2
    /\ lessons[Len(lessons)].classroom = loader.classrooms[2].number
    /\ loader.home_classroom[lessons[Len(lessons)].teacher]
       = loader.classrooms[2].number

\* Phase 2 has placed a lesson without a classroom
C17_WitnessNoClassroom ==
    /\ pc = "phase2_hour"
    /\ placed >= 1
    /\ lessons[Len(lessons)].classroom = NoClassroom

CappedSlots == 2 * NumDays

\* the list is in descending score order
ByScore(ld, slots) ==
    \A i, j \in DOMAIN slots :
        i < j => evaluate_ege_slot(ld, slots[i]) >= evaluate_ege_slot(ld, slots[j])

\* C18: find_ege_practice_slots(k), k the maximum hours per week over the
\* groups, returns min(k, 35) pairwise distinct slots of the grid. Up to the
\* first 10 of them are the best-scored slots that keep every weekday at no
\* more than 2 slots, in descending score order; only when k is more than
\* these 10 does a weekday hold more than 2 slots, and then the others are the
\* best-scored slots not selected before, in descending score order.
C18_ReservedSlots ==
    ((pc = "phase1_slots" \/ pc = "phase2_new") /\ loader.ege_groups # <<>>) =>
        LET k == max_hours(loader)
            score(s) == evaluate_ege_slot(loader, s)
            n == Len(ege_slots)
            capped == SubSeq(ege_slots, 1, IF n < CappedSlots THEN n ELSE CappedSlots)
            rest == SubSeq(ege_slots, Len(capped) + 1, n)
            left == AllSlots \ Range(ege_slots)
        IN /\ n = (IF k < NumDays * NumPeriods THEN k ELSE NumDays * NumPeriods)
           /\ Range(ege_slots) \subseteq AllSlots
           /\ Cardinality(Range(ege_slots)) = n
           /\ ByScore(loader, capped)
           /\ \A d \in DayOfWeek : DayCount(capped, d) <= 2
           /\ \A s \in AllSlots \ Range(capped) :
                 (capped # <<>> /\ score(s) > score(capped[Len(capped)]))
                 => /\ DayCount(capped, s.day) = 2
                    /\ \A i \in DOMAIN capped :
                          capped[i].day = s.day => score(capped[i]) >= score(s)
           /\ k <= CappedSlots => rest = <<>>
           /\ ByScore(loader, rest)
           /\ \A i \in DOMAIN rest : \A s \in left : score(rest[i]) >= score(s)

\* more hours than the cap lets through: a weekday holds 3 reserved slots
C18_Witness ==
    /\ pc = "phase1_slots"
    /\ loader.seed = 1
    /\ Len(ege_slots) > CappedSlots
    /\ Len(ege_slots) < NumDays * NumPeriods
    /\ \E d \in DayOfWeek : DayCount(ege_slots, d) >= 3

\* more hours than the grid has slots: every slot of the grid is reserved
C18_WitnessWholeGrid ==
    /\ pc = "phase1_slots"
    /\ max_hours(loader) > NumDays * NumPeriods
    /\ Range(ege_slots) = AllSlots

\* the slots that are legal for the current requirement, by the schedule
LegalSlots ==
    {s \in AllSlots :
        /\ s \notin Range(ege_slots)
        /\ Teacher_is_available(loader, CurrentSubject.teacher, s.day)
        /\ ~is_teacher_busy(lessons, CurrentSubject.teacher, s)
        /\ \A k \in DOMAIN CurrentSubject.classes :
              ~is_class_busy(lessons, CurrentSubject.classes[k], s)}

\* the weekdays of the lessons this placement of the requirement has placed
DaysOfPlacement ==
    {lessons[i].time_slot.day : i \in (Len(lessons) - placed + 1)..Len(lessons)}

\* the score the placement gave the slot when it started
ScoreOf(s) ==
    LET i == CHOOSE j \in DOMAIN scored_slots : scored_slots[j][2] = s
    IN scored_slots[i][1]

\* the step places a lesson on a best-scored slot of the set
PlacesBestOf(S) ==
    /\ Len(lessons') = Len(lessons) + 1
    /\ lessons'[Len(lessons')].time_slot \in S
    /\ \A s \in S : ScoreOf(lessons'[Len(lessons')].time_slot) >= ScoreOf(s)

\* the score of the slot for the hour at hand, the lessons placed so far
\* counted
ScoreForHour(s) ==
    _evaluate_slot(loader, cache, Range(ege_slots), s, CurrentSubject,
                   _is_hard_subject(CurrentSubject))

PlacerBuilt ==
    pc \in {"phase2_start", "phase2_subject", "phase2_hour", "phase3_new"}

\* the schedule has a lesson at the slot that satisfies the field test
TeacherAt(t, s) ==
    \E i \in DOMAIN lessons :
        lessons[i].teacher = t /\ lessons[i].time_slot = s

LabelAt(c, s) ==
    \E i \in DOMAIN lessons :
        lessons[i].class_or_group = c /\ lessons[i].time_slot = s

RoomAt(r, s) ==
    \E i \in DOMAIN lessons :
        lessons[i].classroom = r /\ lessons[i].time_slot = s

\* C20: once the Phase 2 placer is constructed, and after every placement of
\* Phase 2, the occupancy index marks a teacher (a class-or-group label, a
\* classroom) busy at a slot if and only if the schedule has a lesson with
\* that teacher (label, classroom) at the slot.
C20_IndexAgrees ==
    PlacerBuilt =>
        \A s \in AllSlots :
            /\ \A t \in Teachers : s \in cache.teacher[t] <=> TeacherAt(t, s)
            /\ \A c \in AllLabels(loader) :
                   s \in cache.class[c] <=> LabelAt(c, s)
            /\ \A r \in RoomNumbers(loader) :
                   s \in cache.classroom[r] <=> RoomAt(r, s)

\* C20 witness: Phase 2 has placed a lesson with a classroom on top of a
\* practice of Phase 1; the index, built from the practice and updated with
\* the lesson, holds the slots of both.
C20_Witness ==
    /\ pc = "phase2_hour"
    /\ \E i, j \in DOMAIN lessons :
          /\ lessons[i].is_ege_practice
          /\ lessons[i].time_slot \in cache.class[lessons[i].class_or_group]
          /\ ~lessons[j].is_ege_practice
          /\ lessons[j].classroom # NoClassroom
          /\ lessons[j].time_slot \in cache.classroom[lessons[j].classroom]
          /\ lessons[j].time_slot \in cache.teacher[lessons[j].teacher]

\* states of Phase 3, from the construction of the optimizer to its return
InPhase3 ==
    pc \in {"phase3_new", "optimize", "loop", "decide", "finalize"}

\* no teacher and no class-or-group label has two lessons in one slot
NoDoubleBooking(ls) == ~TeacherClash(ls) /\ ~LabelClash(ls)

\* the optimize loop performs a swap: _find_and_try_swap returns a pair
SwapPerformed == pc = "loop" /\ pc' = "decide"

\* the two lessons left aside, nobody at the slot of lesson b has the teacher
\* or the label of lesson a
FreeAtOther(a, b) ==
    \A o \in DOMAIN lessons \ {a, b} :
        lessons[o].time_slot = lessons[b].time_slot
        => /\ lessons[o].teacher # lessons[a].teacher
           /\ lessons[o].class_or_group # lessons[a].class_or_group

\* C21: a swap is performed only when, the two swapped lessons left aside,
\* neither lesson's teacher nor label already occupies the other lesson's
\* slot; so a step of Phase 3 (a speculative swap, a kept swap, a rollback,
\* the return of the best snapshot) that starts without a teacher or label
\* double-booking in the working schedule and in the best snapshot ends
\* without one, and a schedule that enters Phase 3 without one has none in
\* any state of Phase 3.
C21_SwapsKeepBookingsSingle ==
    [][/\ SwapPerformed =>
             /\ FreeAtOther(swap_result'[1], swap_result'[2])
             /\ FreeAtOther(swap_result'[2], swap_result'[1])
       /\ (InPhase3 /\ NoDoubleBooking(lessons)
                    /\ NoDoubleBooking(best_schedule))
          => (NoDoubleBooking(lessons') /\ NoDoubleBooking(best_schedule'))]_vars

\* C21 witness: a speculative swap was made in a schedule without
\* double-booking in which a third lesson has the teacher of the first
\* swapped lesson and another the label of the second, so that the checks of
\* the swap had lessons to look at.
C21_Witness ==
    /\ pc = "decide"
    /\ NoDoubleBooking(lessons)
    /\ \E o, q \in DOMAIN lessons \ {swap_result[1], swap_result[2]} :
          /\ lessons[o].teacher = lessons[swap_result[1]].teacher
          /\ lessons[q].class_or_group = lessons[swap_result[2]].class_or_group

\* C22: in no iteration of Phase 3 are the two lessons whose slots are
\* exchanged both exam-practice lessons, whichever of the two was drawn
\* first; the rollback of a swap exchanges the same two lessons again.
C22_NoPracticePairSwapped ==
    [][/\ SwapPerformed =>
             ~(/\ lessons[swap_result'[1]].is_ege_practice
               /\ lessons[swap_result'[2]].is_ege_practice)
       /\ (pc = "decide" /\ lessons' # lessons) =>
             /\ ~(/\ lessons[swap_result[1]].is_ege_practice
                  /\ lessons[swap_result[2]].is_ege_practice)
             /\ \A i \in DOMAIN lessons \ {swap_result[1], swap_result[2]} :
                   lessons'[i] = lessons[i]]_vars

\* C22 witness: the schedule has two exam-practice lessons on different
\* slots, and a swap was made whose first lesson is one of them and whose
\* second lesson is an ordinary lesson.
C22_Witness ==
    /\ pc = "decide"
    /\ lessons[swap_result[1]].is_ege_practice
    /\ ~lessons[swap_result[2]].is_ege_practice
    /\ \E o \in DOMAIN lessons \ {swap_result[1]} :
          /\ lessons[o].is_ege_practice
          /\ lessons[o].time_slot # lessons[swap_result[1]].time_slot

\* C22 witness: a swap whose second lesson is an exam-practice lesson and
\* whose first lesson is an ordinary lesson
C22_WitnessSecond ==
    /\ pc = "decide"
    /\ ~lessons[swap_result[1]].is_ege_practice
    /\ lessons[swap_result[2]].is_ege_practice

\* the schedule with the slots of lessons a and b exchanged
Exchanged(ls, a, b) ==
    [ls EXCEPT ![a].time_slot = ls[b].time_slot,
               ![b].time_slot = ls[a].time_slot]

\* the slot index holds, for every slot, each lesson of the slot once and
\* nothing else
IndexOfSchedule(ls, by_slot) ==
    \A s \in AllSlots :
        /\ Range(by_slot[s]) = {i \in DOMAIN ls : ls[i].time_slot = s}
        /\ Len(by_slot[s]) = Cardinality(Range(by_slot[s]))

\* the decision of optimize on the swap of this iteration
Decides == pc = "decide" /\ pc' # "decide"

SwapKept ==
    /\ lessons' = lessons
    /\ lessons_by_slot' = lessons_by_slot
    /\ current_metric' = swap_result[3]

C23_WitnessKept ==
    /\ pc = "loop"
    /\ p3_stats.improvements = 1
    /\ p3_stats.accepted_worse = 1

\* delta of the swap that optimize is deciding on
Delta == swap_result[3] - current_metric

\* C24 as stated: every accepted swap, an improvement or an accepted
\* worsening, resets the plateau counter, and only undone swaps advance it.
C24_AcceptedSwapResets ==
    [][Decides =>
          (IF lessons' = lessons
           THEN no_improvement_count' = 0
           ELSE no_improvement_count' = no_improvement_count + 1)]_vars

\* C24, amended: the Phase 3 loop stops before max_iterations exactly when
\* the plateau counter reaches 200, that is after 200 consecutive swaps that
\* were no improvement: an improvement (delta < 0) resets the counter, an
\* accepted worsening and an undone swap both advance it by one, and an
\* iteration skipped for lack of a swap leaves it as it is.
C24_PlateauOfNoImprovement ==
    [][/\ Decides =>
             /\ no_improvement_count' =
                   (IF Delta < 0 THEN 0 ELSE no_improvement_count + 1)
             /\ IF no_improvement_count' >= max_no_improvement
                THEN /\ pc' = "finalize"
                     /\ exit' = "converged"
                     /\ no_improvement_count' = max_no_improvement
                     /\ iteration < max_iterations
                ELSE pc' = "loop" /\ exit' = exit
       /\ (pc = "loop" /\ pc' = "loop") =>
             no_improvement_count' = no_improvement_count
       /\ (pc = "loop" /\ pc' = "finalize") =>
             /\ exit' = "exhausted"
             /\ iteration = max_iterations
             /\ no_improvement_count < max_no_improvement]_vars

\* C24 witness: the loop stopped early, on a plateau that holds accepted
\* worsenings, with iterations of the budget left
C24_Witness ==
    /\ pc = "finalize"
    /\ exit = "converged"
    /\ p3_stats.accepted_worse > 0
    /\ iteration + 1 < max_iterations

\* C24 witness: an improvement has reset a counter that stood above 0
C24_WitnessReset ==
    /\ pc = "loop"
    /\ no_improvement_count = 0
    /\ p3_stats.improvements > 0
    /\ p3_stats.iterations > p3_stats.improvements

\* the iterations optimize runs when no max_iterations is given
DefaultIterations == 2000

\* the temperature after n coolings of the temperature t (the run is split
\* in two halves)
RECURSIVE Cooled(_, _)
Cooled(t, n) ==
    IF t < 0 \/ n = 0 THEN t
    ELSE IF n = 1 THEN Cool(t)
    ELSE Cooled(Cooled(t, n \div 2), n - (n \div 2))

\* the temperature after n coolings of the temperature t, or -1 when one of
\* the coolings raised the temperature or took it below min_temperature
RECURSIVE CoolingRun(_, _)
CoolingRun(t, n) ==
    IF t < 0 \/ n = 0 THEN t
    ELSE IF n = 1
         THEN (IF Cool(t) <= t /\ Cool(t) >= min_temperature
               THEN Cool(t) ELSE -1)
         ELSE CoolingRun(CoolingRun(t, n \div 2), n - (n \div 2))

\* the temperature at the end of a default run in which every iteration
\* swaps, or -1
DefaultRun == CoolingRun(initial_temperature, DefaultIterations)

\* C25 as stated: the temperature starts at 100.0 and is multiplied by 0.995
\* once in every iteration counted in the iterations counter, the skipped
\* ones included: when an iteration starts, the temperature is 100.0 cooled
\* as many times as iterations were counted.
C25_CooledOncePerIteration ==
    pc = "loop" => temperature = Cooled(initial_temperature, p3_stats.iterations)

\* C25, amended: the temperature starts at 100.0, is multiplied by 0.995
\* (and floored at 0.1) once at the end of every iteration that performs a
\* swap, whatever is decided on the swap, and is left as it is by an
\* iteration skipped for lack of a legal swap, though the iterations counter
\* counts it; it never rises and is never below 0.1, also over the 2000
\* iterations of a default run.
C25_CooledOncePerSwap ==
    [][/\ pc = "optimize" =>
             /\ temperature' = initial_temperature
             /\ DefaultRun >= min_temperature
       /\ SwapPerformed =>
             /\ temperature' = temperature
             /\ p3_stats'.iterations = p3_stats.iterations + 1
       /\ Decides =>
             /\ temperature' = Cool(temperature)
             /\ p3_stats'.iterations = p3_stats.iterations
       /\ (pc = "loop" /\ pc' = "loop") =>
             /\ temperature' = temperature
             /\ p3_stats'.iterations = p3_stats.iterations + 1
       /\ (pc = "loop" \/ pc = "decide" \/ pc = "finalize") =>
             /\ temperature' <= temperature
             /\ temperature' >= min_temperature]_vars

\* C25 witness: two iterations were counted, one swapped and cooled the
\* temperature once, the other was skipped; a default run of 2000 swaps ends
\* on the floor of 0.1
C25_Witness ==
    /\ pc = "loop"
    /\ p3_stats.iterations = 2
    /\ temperature = Cool(initial_temperature)
    /\ temperature < initial_temperature
    /\ DefaultRun = min_temperature

\* lesson b is a legal swap partner of lesson a
LegalPartner(a, b) ==
    /\ lessons[b] # lessons[a]
    /\ ~(lessons[a].is_ege_practice /\ lessons[b].is_ege_practice)
    /\ _can_swap(loader, lessons, lessons_by_slot, a, b)

\* an iteration of optimize that is skipped: the loop goes on without a swap
Skipped == pc = "loop" /\ pc' = "loop"

\* C26: an iteration of Phase 3 is skipped only when the schedule has fewer
\* than 2 lessons or a lesson that can be drawn first has no legal swap
\* partner, and a swap is made only with a legal partner; the skipped
\* iteration leaves every lesson's slot, the slot index, the current metric,
\* the best snapshot, the improvements and accepted-worsenings counters and
\* the plateau counter as they are, and the loop goes on to the next
\* iteration.
C26_SkippedIterationFrame ==
    [][/\ Skipped =>
             /\ \/ Len(lessons) < 2
                \/ \E a \in DOMAIN lessons :
                      \A b \in DOMAIN lessons : ~LegalPartner(a, b)
             /\ lessons' = lessons
             /\ lessons_by_slot' = lessons_by_slot
             /\ current_metric' = current_metric
             /\ best_schedule' = best_schedule
             /\ best_metric' = best_metric
             /\ p3_stats'.improvements = p3_stats.improvements
             /\ p3_stats'.accepted_worse = p3_stats.accepted_worse
             /\ no_improvement_count' = no_improvement_count
             /\ iteration' = iteration + 1
             /\ exit' = exit
       /\ SwapPerformed =>
             /\ Len(lessons) >= 2
             /\ LegalPartner(swap_result'[1], swap_result'[2])]_vars

\* C26 witness: the one iteration run so far was skipped in a schedule of
\* several lessons, one of which has no legal swap partner, and the loop
\* has an iteration left
C26_Witness ==
    /\ pc = "loop"
    /\ p3_stats.iterations = 1
    /\ iteration = 1
    /\ iteration < max_iterations
    /\ temperature = initial_temperature
    /\ Len(lessons) >= 2
    /\ \E a \in DOMAIN lessons : \A b \in DOMAIN lessons : ~LegalPartner(a, b)
    /\ \E a, b \in DOMAIN lessons : LegalPartner(a, b)

\* C26 witness: iterations were skipped in a schedule of fewer than 2 lessons
C26_WitnessFewLessons ==
    /\ pc = "loop"
    /\ p3_stats.iterations = 2
    /\ Len(lessons) < 2

\* Phase 2 is placing: the placer has its order and has not returned
Placing == pc = "phase2_subject" \/ pc = "phase2_hour"

\* the slot is legal for the requirement, by the schedule: the teacher works
\* that day and is free, every class of the requirement is free, and the
\* slot is not reserved for the exam practices
LegalFor(subject, s) ==
    /\ Teacher_is_available(loader, subject.teacher, s.day)
    /\ ~TeacherAt(subject.teacher, s)
    /\ \A k \in DOMAIN subject.classes : ~LabelAt(subject.classes[k], s)
    /\ s \notin Range(ege_slots)

\* _evaluate_slot in the occupancy state at hand
ScoreNow(subject, s) ==
    _evaluate_slot(loader, cache, Range(ege_slots), s, subject,
                   _is_hard_subject(subject))

\* C27: in every occupancy state of Phase 2 and for every mandatory
\* requirement, _evaluate_slot returns a strictly positive score for every
\* slot that is legal for the requirement, whatever penalties for the period,
\* the day load of the class and the idle periods of the teacher add up, and
\* 0 for every illegal slot; so the list _evaluate_all_slots returns holds
\* every legal slot.
C27_LegalSlotsScorePositive ==
    Placing =>
        \A i \in mandatory_subjects(loader) :
            LET subject == loader.subjects[i]
                scored == _evaluate_all_slots(loader, cache, Range(ege_slots),
                              subject, _is_hard_subject(subject))
                kept == {scored[k][2] : k \in DOMAIN scored}
            IN \A s \in AllSlots :
                  IF LegalFor(subject, s)
                  THEN ScoreNow(subject, s) > 0 /\ s \in kept
                  ELSE ScoreNow(subject, s) = 0 /\ s \notin kept

\* C27 witness: a legal slot in period 7 of a day on which the class has
\* 5 lessons and the teacher would get an idle period scores below half the
\* base score
C27_Witness ==
    /\ Placing
    /\ \E i \in mandatory_subjects(loader) : \E s \in AllSlots :
          LET subject == loader.subjects[i]
          IN /\ LegalFor(subject, s)
             /\ s.lesson_number = 7
             /\ Cardinality({t \in cache.class["A"] : t.day = s.day}) >= 5
             /\ \E t \in cache.teacher[subject.teacher] :
                   t.day = s.day /\ t.lesson_number < 6
             /\ ScoreNow(subject, s) > 0
             /\ ScoreNow(subject, s) < 50

\* Phase 2 has returned
Phase2Finished == pc = "phase3_new"

\* the sum of the hours per week over the mandatory requirements
RequiredHours ==
    SumSet(mandatory_subjects(loader),
           [i \in mandatory_subjects(loader) |->
               loader.subjects[i].hours_per_week])

\* C28: when Phase 2 finishes, placed + failed = total_required, where
\* total_required is the sum of the hours per week over the mandatory
\* requirements (with one class, several classes or no class), placed is the
\* number of lessons Phase 2 added to the schedule and failed is the number
\* of entries of the failure list.
C28_StatsAddUp ==
    Phase2Finished =>
        /\ p2_stats.total_required = RequiredHours
        /\ p2_stats.placed = Cardinality(OrdinaryLessons(lessons))
        /\ p2_stats.failed = Len(p2_stats.conflicts)
        /\ p2_stats.placed + p2_stats.failed = p2_stats.total_required

\* the classes listed by the requirement the lesson was placed for
CohortsOf(lesson) ==
    UNION {Range(loader.subjects[i].classes) :
              i \in {j \in mandatory_subjects(loader) :
                        /\ loader.subjects[j].name = lesson.subject
                        /\ loader.subjects[j].teacher = lesson.teacher
                        /\ ClassNameOf(loader.subjects[j]) = lesson.class_or_group}}

\* C29: a lesson Phase 2 places for a requirement occupies every class the
\* requirement lists at the lesson's slot: Phase 2 places no later lesson
\* in the same slot for a requirement that lists one of these classes, be
\* it the first listed class or another.
C29_EveryCohortOccupied ==
    [][Phase2Places =>
          LET new == lessons'[Len(lessons')]
          IN \A i \in OrdinaryLessons(lessons) :
                lessons[i].time_slot = new.time_slot
                => CohortsOf(lessons[i]) \cap CohortsOf(new) = {}]_vars

\* how many lessons of the schedule lie on the slot
LessonsAt(ls, s) == Cardinality({i \in DOMAIN ls : ls[i].time_slot = s})

\* the two schedules occupy the same slots, each as many times
SameSlotsOccupied(a, b) == \A s \in AllSlots : LessonsAt(a, s) = LessonsAt(b, s)

\* C30: every step of Phase 3, a swap, a rollback and the return of the
\* best snapshot included, leaves the multiset of the occupied time slots
\* as it is; so the number of lessons of each weekday is the same in every
\* state of Phase 3, and the term of the quality metric for the deviation
\* of the load per day has the same value before and after any swap.
C30_SlotsMultisetKept ==
    [][InPhase3 =>
          /\ SameSlotsOccupied(lessons, lessons')
          /\ daily_counts(lessons') = daily_counts(lessons)
          /\ DeviationTerm(lessons') = DeviationTerm(lessons)
          /\ best_schedule' # <<>> =>
                SameSlotsOccupied(best_schedule', lessons')]_vars

\* C30 witness: a swap between two weekdays was undone, in a schedule whose
\* weekdays are loaded unevenly
C30_Witness ==
    /\ pc = "loop"
    /\ no_improvement_count > 0
    /\ p3_stats.accepted_worse = 0
    /\ DeviationTerm(lessons) > 0
    /\ \E d \in DayOfWeek : daily_counts(lessons)[d] >= 2

\* C30 witness: the swap on which optimize is deciding moved two lessons
\* between two weekdays
C30_WitnessAcrossDays ==
    /\ pc = "decide"
    /\ lessons[swap_result[1]].time_slot.day
          # lessons[swap_result[2]].time_slot.day
    /\ DeviationTerm(lessons) > 0

====
